---- MODULE Spec2Model ----
(***************************************************************************)
(* Ingestion pipeline of the SharePoint RAG importer: the import           *)
(* coordinator (run_import_job), the import worker that polls for pending  *)
(* jobs, the webhook re-index and delete paths, and the two stores they    *)
(* share (PostgreSQL metadata rows, Qdrant points).                        *)
(*                                                                         *)
(* Every await of the code that touches a shared row is one step; the      *)
(* purely local work that follows it (extraction, chunking, embedding of   *)
(* bytes already downloaded) is folded into the step that precedes the     *)
(* next shared access.                                                     *)
(*                                                                         *)
(* Fault model: every call of the per-file pipeline may raise (download,   *)
(* document writes, embedding, vector and chunk writes), and so may the    *)
(* setup calls.  Writes of the import_jobs row itself are taken to         *)
(* succeed.  The chunks table is modelled from the INSERT in               *)
(* create_chunks: a bag of rows with no uniqueness constraint.             *)
(***************************************************************************)
EXTENDS Integers, Sequences, FiniteSets, Bags, TLC

\* ------------------------------------------------------------------ bounds
MaxJobs == 2             \* import requests accepted in one behaviour
NFiles == 2              \* remote files (sharepoint ids) of the folder
MaxContent == 4          \* contents a download can return, see Extract
MaxNotifications == 1    \* change notifications delivered in one behaviour
NConns == 1              \* connections that exist initially
SeqFiles == 1            \* files one import finds, in SpecSeq
ConcJobs == 1            \* import requests, in SpecRace and SpecShared
ConcFiles == 1           \* files one import finds, in SpecRace and SpecShared
DelConns == 2            \* connections that exist initially, in SpecConn
NFolders == 3            \* folders of the drive a crawl walks, in SpecCrawl
NCrawlFiles == 2         \* files of that drive
MaxDepthArg == 2         \* largest max_depth passed to the crawl
MaxTextLen == 7          \* characters of the text given to chunk_text, in SpecChunk
ChunkSize == 2           \* chunk_size of the TextChunker, in tokens
ChunkOverlap == 1        \* its chunk_overlap
MinChunkSize == 2        \* its min_chunk_size
MaxPages == 2            \* pages of the listing of one folder, in SpecList
MaxChunks == 5           \* chunks of the file embedded in SpecEmbed
BatchSize == 2           \* batch_size of embed_batch (100 in the source)

MAX_FILE_SIZE_MB == 100
AUTHENTICATE_ATTEMPTS == 3     \* stop_after_attempt of authenticate
LIST_ATTEMPTS == 5             \* stop_after_attempt of list_folder_contents
EMBED_ATTEMPTS == 3            \* stop_after_attempt of embed_batch

JobIds == 1..MaxJobs
Files == 1..NFiles
Contents == 0..MaxContent
ConnectionIds == 1..NConns
MaxFileSize == MAX_FILE_SIZE_MB * 1024 * 1024
Sizes == {MaxFileSize, MaxFileSize + 1}

\* Runner of run_import_job: the API background task of job j is runner j,
\* the import worker is runner Worker.
Worker == 0
Runners == JobIds \cup {Worker}
NoDoc == 0
NoJob == 0
NoFile == 0

\* The file_types of an import request: None (here the empty set) or a list
\* of extensions.  The folder's files with an odd id are pdf files, the
\* others txt files; both are in SUPPORTED_EXTENSIONS.
NoFileTypes == {}
FileTypeRequests == {NoFileTypes, {"pdf"}}
FileTypeOf(id) == IF id % 2 = 1 THEN "pdf" ELSE "txt"

VARIABLES
    chunker,       \* a TextChunker.chunk_text call examined on its own, see SpecChunk
    embedder,      \* a TextEmbedder.embed_batch call and the vectors built from it, see SpecEmbed
    client,        \* a SharePointClient call examined on its own, see SpecCrawl
    connections,   \* ids of the rows of table connections
    deleting,      \* the connection a delete_connection request is deleting
    import_jobs,   \* table import_jobs: job id -> row
    documents,     \* table documents: a set of rows
    chunks,        \* table chunks: a bag of rows
    vectors,       \* Qdrant collection: a set of points, one per point id
    run,           \* local state of each run_import_job invocation
    worker,        \* position of worker_loop and the job it picked
    hook,          \* local state of the process_notification task
    next_ids,      \* ids handed out so far: [job, doc, notification]
    hist           \* history, written by the steps, read only by the checks

vars == <<chunker, embedder, client, connections, deleting, import_jobs, documents, chunks, vectors, run, worker,
          hook, next_ids, hist>>

\* ---------------------------------------------------------- pure functions

\* DocumentExtractor.extract on downloaded content c: content 0 cannot be
\* extracted (the handler raised, or no handler), content 1 extracts to
\* blank text without an error, any other content has text.
Extract(c) ==
    IF c = 0 THEN [text |-> "", error |-> "extraction error"]
    ELSE IF c = 1 THEN [text |-> " ", error |-> ""]
    ELSE [text |-> "text", error |-> ""]

\* text.strip() of the two tests below.
Strip(text) == IF text = " " THEN "" ELSE text

\* Number of chunks TextChunker.chunk_text returns for the text of content c:
\* content 2 is text that leaves no chunk (page markers only), content
\* c > 2 splits into c - 2 chunks.
NumChunks(c) == IF c <= 2 THEN 0 ELSE c - 2

\* The import pipeline's test at line 290: extraction.error or blank text.
ExtractionFailed(c) == Extract(c).error # "" \/ Strip(Extract(c).text) = ""

\* The webhook's test at line 602: blank text only.
HookNoText(c) == Strip(Extract(c).text) = ""

\* -------------------------------------------------------------- the stores

DocsByKey(docs, conn, sp) ==
    {d \in docs : d.connection_id = conn /\ d.sharepoint_id = sp}

\* INSERT ... ON CONFLICT (connection_id, sharepoint_id) DO UPDATE ... of
\* upsert_document: the row it writes, with a fresh id when it inserts.
UpsertedRow(docs, conn, sp, hash, job, fresh) ==
    IF DocsByKey(docs, conn, sp) = {}
    THEN [id |-> fresh, connection_id |-> conn, sharepoint_id |-> sp,
          content_hash |-> hash, status |-> "pending", chunk_count |-> 0,
          error_message |-> "", import_job_id |-> job]
    ELSE LET old == CHOOSE d \in DocsByKey(docs, conn, sp) : TRUE IN
         [old EXCEPT !.content_hash = hash, !.status = "pending",
                     !.error_message = "", !.import_job_id = job]

\* A mutant of UpsertDocument: a plain INSERT, without the ON CONFLICT arm.
UpsertDocumentAlwaysInsert(docs, conn, sp, hash, job, fresh) ==
    docs \cup {[id |-> fresh, connection_id |-> conn, sharepoint_id |-> sp,
                content_hash |-> hash, status |-> "pending", chunk_count |-> 0,
                error_message |-> "", import_job_id |-> job]}

UpsertDocument(docs, conn, sp, hash, job, fresh) ==
    LET row == UpsertedRow(docs, conn, sp, hash, job, fresh) IN
    (docs \ DocsByKey(docs, conn, sp)) \cup {row}

\* A mutant of UpdateDocumentStatus: the error message is not stored.
UpdateDocumentStatusDropsMessage(docs, id, status, count, error_message) ==
    {IF d.id = id
     THEN [d EXCEPT !.status = status,
                    !.chunk_count = IF count < 0 THEN @ ELSE count,
                    !.error_message = ""]
     ELSE d : d \in docs}

\* update_document_status: UPDATE documents ... WHERE id = $1, with
\* chunk_count = COALESCE($3, chunk_count) and error_message = $4; count < 0
\* stands for None, the empty message for NULL.
UpdateDocumentStatus(docs, id, status, count, error_message) ==
    {IF d.id = id
     THEN [d EXCEPT !.status = status,
                    !.chunk_count = IF count < 0 THEN @ ELSE count,
                    !.error_message = error_message]
     ELSE d : d \in docs}

\* MetadataStore.delete_chunks_by_document: DELETE FROM chunks WHERE document_id.
ChunkRowsOf(ch, id) == {row \in BagToSet(ch) : row.document_id = id}

\* A mutant of DeleteByDocument: the filter matches no point.
DeleteByDocumentNoop(vs, id) == vs

\* VectorStore.delete_by_document: every point whose payload names the document.
DeleteByDocument(vs, id) == {v \in vs : v.document_id # id}

\* A mutant of DeleteChunksByDocument: the delete that removes nothing.
DeleteChunksByDocumentNoop(ch, id) == ch

DeleteChunksByDocument(ch, id) ==
    [row \in BagToSet(ch) \ ChunkRowsOf(ch, id) |-> ch[row]]

\* The points and the chunk records the pipelines build for n chunks of
\* content c: vector id "<document_id>_<index>", one per chunk.
VectorsOf(id, conn, c, n) ==
    {[id |-> <<id, i>>, document_id |-> id, connection_id |-> conn,
      chunk_index |-> i, content |-> c] : i \in 0..(n - 1)}

ChunkRecordsOf(id, c, n) ==
    {[document_id |-> id, chunk_index |-> i, content |-> c] : i \in 0..(n - 1)}

\* VectorStore.upsert_vectors: a point replaces the point of the same id.
UpsertVectors(vs, points) ==
    {v \in vs : \A p \in points : p.id # v.id} \cup points

\* MetadataStore.create_chunks: a plain INSERT of every record.
CreateChunks(ch, records) == ch (+) SetToBag(records)

\* update_import_job_progress: UPDATE import_jobs SET <the fields given>
\* WHERE id = $1; upd holds the arguments that are not None, and an id
\* without a row updates nothing.
UpdateImportJobProgress(js, id, upd) ==
    IF id \notin DOMAIN js THEN js
    ELSE [js EXCEPT ![id] =
            [f \in DOMAIN js[id] |-> IF f \in DOMAIN upd THEN upd[f] ELSE js[id][f]]]

\* create_import_job: the inserted row, with the column defaults.
NewJobRow(conn, recursive, file_types) ==
    [connection_id |-> conn, recursive |-> recursive, file_types |-> file_types,
     status |-> "pending", total_files_found |-> 0,
     files_processed |-> 0, files_failed |-> 0, total_chunks_created |-> 0,
     current_file |-> NoFile, error_log |-> <<>>]

\* ------------------------------------------------------------------- init

\* History: what the checks need to know of the past.  runs[j]: invocations
\* of run_import_job started for job j; job_conn[j]: the connection_id column
\* of job j; attempted[r]: the files whose iteration runner r began;
\* downloaded[r]: the files runner r called download_file for;
\* raised[r]: the files for which a call of the per-file pipeline raised;
\* extract_failed[r]: the files whose extraction failed; indexed_by_run,
\* indexed_by_hook: the documents each pipeline marked indexed; not_found:
\* the connection ids start_import answered 404 for; deleted: the connection
\* ids delete_connection returned for; snap[j]: the stores as they were when
\* job j was set to completed.
NoSnap == [taken |-> FALSE, documents |-> {}, chunks |-> EmptyBag, vectors |-> {}]

IdleRun ==
    [pc |-> "idle", job_id |-> NoJob, connection_id |-> 0, recursive |-> FALSE,
     auth_retries |-> 0, all_files |-> <<>>, idx |-> 0, files_processed |-> 0, files_failed |-> 0, total_chunks |-> 0,
     error_log |-> <<>>, document_id |-> NoDoc, content |-> 0]

IdleHook ==
    [pc |-> "idle", change_type |-> "none", connection_id |-> 0, item |-> NoFile,
     document_id |-> NoDoc, content |-> 0]

NoClientCall == [op |-> "none"]

NoChunkerCall == [op |-> "none"]

NoEmbedderCall == [op |-> "none"]

NoConnection == 0

\* The stores before the first import, with connections conns created.
InitWith(conns) ==
    /\ connections = conns
    /\ deleting = NoConnection
    /\ import_jobs = <<>>
    /\ documents = {}
    /\ chunks = EmptyBag
    /\ vectors = {}
    /\ run = [r \in Runners |-> IdleRun]
    /\ worker = [pc |-> "poll", job_id |-> NoJob]
    /\ hook = IdleHook
    /\ next_ids = [job |-> 1, doc |-> 1, notification |-> 1]
    /\ hist = [runs |-> [j \in JobIds |-> 0],
               job_conn |-> [j \in JobIds |-> 0],
               attempted |-> [r \in Runners |-> <<>>],
               downloaded |-> [r \in Runners |-> {}],
               raised |-> [r \in Runners |-> {}],
               extract_failed |-> [r \in Runners |-> {}],
               skipped |-> [r \in Runners |-> <<>>],
               indexed_by_run |-> {},
               indexed_by_hook |-> {},
               not_found |-> {},
               deleted |-> {},
               snap |-> [j \in JobIds |-> NoSnap]]

InitStores == InitWith(ConnectionIds) /\ chunker = NoChunkerCall /\ embedder = NoEmbedderCall

Init == InitStores /\ client = NoClientCall

\* --------------------------------------------------------- POST /api/import

\* start_import: 404 for an unknown connection, else create the job row and
\* schedule run_import_job as a background task of the request.
CreateAndSchedule(conn, recursive, file_types) ==
    LET j == next_ids.job IN
    /\ import_jobs' = import_jobs @@ (j :> NewJobRow(conn, recursive, file_types))
    /\ run' = [run EXCEPT ![j] =
                 [IdleRun EXCEPT !.pc = "start", !.job_id = j,
                                 !.connection_id = conn,
                                 !.recursive = recursive]]
    /\ next_ids' = [next_ids EXCEPT !.job = @ + 1]
    /\ hist' = [hist EXCEPT !.job_conn[j] = conn]

\* A mutant of StartImport: the connection is not looked up.
StartImportUnchecked(conn, recursive, file_types) ==
    /\ next_ids.job <= MaxJobs
    /\ CreateAndSchedule(conn, recursive, file_types)
    /\ UNCHANGED <<chunker, embedder, client, connections, deleting, documents, chunks, vectors, worker, hook>>

StartImport(conn, recursive, file_types) ==
    /\ next_ids.job <= MaxJobs
    /\ IF conn \in connections
       THEN CreateAndSchedule(conn, recursive, file_types)
       ELSE /\ hist' = [hist EXCEPT !.not_found = @ \cup {conn}]
            /\ UNCHANGED <<import_jobs, run, next_ids>>
    /\ UNCHANGED <<chunker, embedder, client, connections, deleting, documents, chunks, vectors, worker, hook>>

\* ------------------------------------------ DELETE /api/connections/{id}

\* VectorStore.delete_by_connection: every point whose payload names the
\* connection.
DeleteByConnection(vs, conn) == {v \in vs : v.connection_id # conn}

\* Statements 1 and 2 of MetadataStore.delete_connection: the chunk rows of
\* the connection's documents, then the documents.
DeleteChunksOfConnection(ch, docs, conn) ==
    [row \in {x \in BagToSet(ch) :
                \A d \in docs : d.connection_id = conn => d.id # x.document_id} |-> ch[row]]

DeleteDocumentsOfConnection(docs, conn) == {d \in docs : d.connection_id # conn}

\* A mutant of DeleteImportJobs: statement 3 is left out.
DeleteImportJobsNoop(jobs, conn) == jobs

\* Statement 3: DELETE FROM import_jobs WHERE connection_id = $1.
DeleteImportJobs(jobs, conn) ==
    [j \in {k \in DOMAIN jobs : jobs[k].connection_id # conn} |-> jobs[j]]

\* delete_connection up to its first await (lines 172-173): the points of
\* the connection are deleted, or the call raises and the request ends.
\* The handler does not look the connection up.
DeleteConnectionVectors(conn) ==
    /\ deleting = NoConnection
    /\ \/ UNCHANGED <<vectors, deleting>>
       \/ /\ vectors' = DeleteByConnection(vectors, conn)
          /\ deleting' = conn
    /\ UNCHANGED <<chunker, embedder, client, connections, import_jobs, documents, chunks, run, worker,
                   hook, next_ids, hist>>

\* delete_connection from line 176: the four statements in one transaction,
\* committed or, when one raises, rolled back; then the response.
DeleteConnectionRows ==
    /\ deleting # NoConnection
    /\ deleting' = NoConnection
    /\ \/ UNCHANGED <<connections, import_jobs, documents, chunks, hist>>
       \/ /\ chunks' = DeleteChunksOfConnection(chunks, documents, deleting)
          /\ documents' = DeleteDocumentsOfConnection(documents, deleting)
          /\ import_jobs' = DeleteImportJobs(import_jobs, deleting)
          /\ connections' = connections \ {deleting}
          /\ hist' = [hist EXCEPT !.deleted = @ \cup {deleting}]
    /\ UNCHANGED <<chunker, embedder, client, vectors, run, worker, hook, next_ids>>

\* ---------------------------------------------------------- run_import_job

CurFile(rs) == rs.all_files[rs.idx]

\* The lists a crawl can return: files of the folder in listing order, each
\* with the size the listing reported.
FileLists ==
    {fl \in UNION {[1..n -> [id : Files, size_bytes : Sizes]] : n \in 0..NFiles} :
        \A i, k \in DOMAIN fl : i < k => fl[i].id < fl[k].id}

\* A mutant of JobFailed: the job is set to failed, the error is not logged.
JobFailedNoLog(r, error) ==
    /\ import_jobs' = UpdateImportJobProgress(import_jobs, run[r].job_id,
            [status |-> "failed"])
    /\ run' = [run EXCEPT ![r].pc = "done"]

\* The except arm of the job (lines 398-404): the job row is set to failed
\* with a one-entry error log, and the invocation ends.
JobFailed(r, error) ==
    /\ import_jobs' = UpdateImportJobProgress(import_jobs, run[r].job_id,
            [status |-> "failed",
             error_log |-> <<[file |-> NoFile, error |-> error]>>])
    /\ run' = [run EXCEPT ![r].pc = "done"]

\* A mutant of FileFailed: the exception of one file is not caught by the
\* loop, and the invocation ends without a final update.
FileFailedEscapes(rs, error) ==
    [rs EXCEPT !.document_id = NoDoc, !.content = 0, !.pc = "raised"]

\* A mutant of FileFailed: the exception of one file ends the loop.
FileFailedAbort(rs, error) ==
    [rs EXCEPT !.error_log = Append(@, [file |-> CurFile(rs).id, error |-> error]),
               !.files_failed = @ + 1,
               !.idx = Len(rs.all_files) + 1,
               !.document_id = NoDoc, !.content = 0,
               !.pc = "file"]

\* The except arm of one file (lines 371-377), then the next iteration.
FileFailed(rs, error) ==
    [rs EXCEPT !.error_log = Append(@, [file |-> CurFile(rs).id, error |-> error]),
               !.files_failed = @ + 1,
               !.idx = @ + 1,
               !.document_id = NoDoc, !.content = 0,
               !.pc = "file"]

\* A mutant of NextFile: the loop does not move on to the next file.
NextFileRepeats(rs) ==
    [rs EXCEPT !.document_id = NoDoc, !.content = 0, !.pc = "file"]

\* A mutant of NextFile: the file passed over is counted as failed.
NextFileCountsFailed(rs) ==
    [rs EXCEPT !.idx = @ + 1, !.files_failed = @ + 1,
               !.document_id = NoDoc, !.content = 0, !.pc = "file"]

\* `continue`: the next iteration, nothing recorded.  (document_id and
\* content are dead until the next iteration assigns them; they are cleared.)
NextFile(rs) ==
    [rs EXCEPT !.idx = @ + 1, !.document_id = NoDoc, !.content = 0, !.pc = "file"]

\* A call of the per-file pipeline raises in runner r.
Raise(r, error) ==
    /\ run' = [run EXCEPT ![r] = FileFailed(run[r], error)]
    /\ hist' = [hist EXCEPT !.raised[r] = @ \cup {CurFile(run[r]).id}]

\* Lines 173-181: ensure_collection, then status crawling.
RunStart(r) ==
    /\ run[r].pc = "start"
    /\ \/ /\ import_jobs' = UpdateImportJobProgress(import_jobs, run[r].job_id,
                                [status |-> "crawling"])
          /\ run' = [run EXCEPT ![r].pc = "authenticate"]
       \/ JobFailed(r, "ensure_collection")
    /\ hist' = [hist EXCEPT !.runs[run[r].job_id] = @ + 1, !.skipped[r] = <<>>]
    /\ UNCHANGED <<chunker, embedder, client, connections, deleting, documents, chunks, vectors, worker, hook, next_ids>>

\* Lines 183-197: one attempt of client.authenticate, under its retry
\* decorator (client.py lines 141-146): a failed attempt is followed by
\* another until AUTHENTICATE_ATTEMPTS have failed, then RetryError reaches
\* the except arm of the job.  auth_retries counts the failed attempts
\* that were followed by another; it is the decorator's own state and is
\* gone when authenticate returns.
RunAuthenticate(r) ==
    /\ run[r].pc = "authenticate"
    /\ \/ /\ run' = [run EXCEPT ![r].auth_retries = 0, ![r].pc = "setup"]
          /\ UNCHANGED import_jobs
       \/ IF run[r].auth_retries + 1 < AUTHENTICATE_ATTEMPTS
          THEN /\ run' = [run EXCEPT ![r].auth_retries = @ + 1]
               /\ UNCHANGED import_jobs
          ELSE JobFailed(r, "authenticate")
    /\ UNCHANGED <<chunker, embedder, client, connections, deleting, documents, chunks, vectors, worker, hook, next_ids, hist>>

\* The exceptions that reach the except arm of the job from lines 199-231:
\* the folder is not resolved, or (not recursive, line 230) the listing
\* raised after its retries; a recursive crawl catches that in the branch.
SetupErrors(rs) ==
    {"folder not found"} \cup (IF rs.recursive THEN {} ELSE {"list_folder_contents"})

\* Lines 199-241: resolve the folder, enumerate the files, then status
\* processing with the total.
RunSetup(r) ==
    /\ run[r].pc = "setup"
    /\ \/ \E error \in SetupErrors(run[r]) : JobFailed(r, error)
       \/ \E fl \in FileLists :
             /\ import_jobs' = UpdateImportJobProgress(import_jobs, run[r].job_id,
                    [status |-> "processing", total_files_found |-> Len(fl)])
             /\ run' = [run EXCEPT ![r].all_files = fl, ![r].idx = 1, ![r].pc = "file"]
    /\ UNCHANGED <<chunker, embedder, client, connections, deleting, documents, chunks, vectors, worker, hook, next_ids, hist>>

\* Lines 244-261: progress update, size test, download.
RunFileBegin(r) ==
    LET rs == run[r]
        began == [hist EXCEPT !.attempted[r] = Append(@, CurFile(rs).id)]
        fetch == [began EXCEPT !.downloaded[r] = @ \cup {CurFile(rs).id}] IN
    /\ rs.pc = "file"
    /\ rs.idx <= Len(rs.all_files)
    /\ import_jobs' = UpdateImportJobProgress(import_jobs, rs.job_id,
            [current_file |-> CurFile(rs).id, files_processed |-> rs.files_processed])
    /\ IF CurFile(rs).size_bytes > MaxFileSize
       THEN /\ run' = [run EXCEPT ![r] = NextFile(rs)]
            /\ hist' = [began EXCEPT !.skipped[r] = Append(@, CurFile(rs).id)]
       ELSE \/ /\ run' = [run EXCEPT ![r] = FileFailed(rs, "download_file")]
               /\ hist' = [fetch EXCEPT !.raised[r] = @ \cup {CurFile(rs).id}]
            \/ /\ \E c \in Contents :
                    run' = [run EXCEPT ![r].content = c, ![r].pc = "upsert_document"]
               /\ hist' = fetch
    /\ UNCHANGED <<chunker, embedder, client, connections, deleting, documents, chunks, vectors, worker, hook, next_ids>>

\* Lines 263-275: upsert_document.
RunUpsertDocument(r) ==
    LET rs == run[r] IN
    /\ rs.pc = "upsert_document"
    /\ \/ /\ Raise(r, "upsert_document")
          /\ UNCHANGED <<documents, next_ids>>
       \/ LET row == UpsertedRow(documents, rs.connection_id, CurFile(rs).id,
                                  rs.content, rs.job_id, next_ids.doc) IN
          /\ documents' = UpsertDocument(documents, rs.connection_id, CurFile(rs).id,
                                         rs.content, rs.job_id, next_ids.doc)
          /\ next_ids' = [next_ids EXCEPT !.doc = IF row.id = @ THEN @ + 1 ELSE @]
          /\ run' = [run EXCEPT ![r].document_id = row.id, ![r].pc = "mark_processing"]
          /\ UNCHANGED hist
    /\ UNCHANGED <<chunker, embedder, client, connections, deleting, import_jobs, chunks, vectors, worker, hook>>

\* Lines 277-281: update_document_status(processing).
RunMarkProcessing(r) ==
    LET rs == run[r] IN
    /\ rs.pc = "mark_processing"
    /\ \/ /\ Raise(r, "update_document_status")
          /\ UNCHANGED documents
       \/ /\ documents' = UpdateDocumentStatus(documents, rs.document_id, "processing", -1, "")
          /\ run' = [run EXCEPT ![r].pc = "extract"]
          /\ UNCHANGED hist
    /\ UNCHANGED <<chunker, embedder, client, connections, deleting, import_jobs, chunks, vectors, worker, hook, next_ids>>

\* Lines 283-298: a failed extraction marks the document failed and counts
\* the file as failed, with no entry in error_log.
ExtractionFailure(rs) == [NextFile(rs) EXCEPT !.files_failed = @ + 1]

\* Lines 283-312: extract, chunk, embed.
RunExtract(r) ==
    LET rs == run[r]
        failed == [hist EXCEPT !.extract_failed[r] = @ \cup {CurFile(rs).id}] IN
    /\ rs.pc = "extract"
    /\ IF ExtractionFailed(rs.content)
       THEN \/ /\ documents' = UpdateDocumentStatus(documents, rs.document_id, "failed", -1,
                                  IF Extract(rs.content).error # ""
                                  THEN Extract(rs.content).error
                                  ELSE "No text content")
               /\ run' = [run EXCEPT ![r] = ExtractionFailure(rs)]
               /\ hist' = failed
            \/ /\ run' = [run EXCEPT ![r] = FileFailed(rs, "update_document_status")]
               /\ hist' = [failed EXCEPT !.raised[r] = @ \cup {CurFile(rs).id}]
               /\ UNCHANGED documents
       ELSE /\ UNCHANGED documents
            /\ IF NumChunks(rs.content) = 0
               THEN /\ run' = [run EXCEPT ![r] = NextFile(rs)]
                    /\ hist' = [hist EXCEPT !.skipped[r] = Append(@, CurFile(rs).id)]
               ELSE \/ Raise(r, "embed_batch")
                    \/ /\ run' = [run EXCEPT ![r].pc = "delete_by_document"]
                       /\ UNCHANGED hist
    /\ UNCHANGED <<chunker, embedder, client, connections, deleting, import_jobs, chunks, vectors, worker, hook, next_ids>>

\* Line 350: vector_store.delete_by_document.
RunDeleteByDocument(r) ==
    LET rs == run[r] IN
    /\ rs.pc = "delete_by_document"
    /\ \/ /\ Raise(r, "delete_by_document")
          /\ UNCHANGED vectors
       \/ /\ vectors' = DeleteByDocument(vectors, rs.document_id)
          /\ run' = [run EXCEPT ![r].pc = "delete_chunks_by_document"]
          /\ UNCHANGED hist
    /\ UNCHANGED <<chunker, embedder, client, connections, deleting, import_jobs, documents, chunks, worker, hook, next_ids>>

\* Line 351: metadata_store.delete_chunks_by_document.
RunDeleteChunksByDocument(r) ==
    LET rs == run[r] IN
    /\ rs.pc = "delete_chunks_by_document"
    /\ \/ /\ Raise(r, "delete_chunks_by_document")
          /\ UNCHANGED chunks
       \/ /\ chunks' = DeleteChunksByDocument(chunks, rs.document_id)
          /\ run' = [run EXCEPT ![r].pc = "upsert_vectors"]
          /\ UNCHANGED hist
    /\ UNCHANGED <<chunker, embedder, client, connections, deleting, import_jobs, documents, vectors, worker, hook, next_ids>>

\* Lines 314-336 and 354: the points of the chunks, upserted.
RunUpsertVectors(r) ==
    LET rs == run[r] IN
    /\ rs.pc = "upsert_vectors"
    /\ \/ /\ Raise(r, "upsert_vectors")
          /\ UNCHANGED vectors
       \/ /\ vectors' = UpsertVectors(vectors,
                 VectorsOf(rs.document_id, rs.connection_id, rs.content,
                           NumChunks(rs.content)))
          /\ run' = [run EXCEPT ![r].pc = "create_chunks"]
          /\ UNCHANGED hist
    /\ UNCHANGED <<chunker, embedder, client, connections, deleting, import_jobs, documents, chunks, worker, hook, next_ids>>

\* Lines 338-347 and 357: the chunk records, inserted.
RunCreateChunks(r) ==
    LET rs == run[r] IN
    /\ rs.pc = "create_chunks"
    /\ \/ /\ Raise(r, "create_chunks")
          /\ UNCHANGED chunks
       \/ /\ chunks' = CreateChunks(chunks,
                 ChunkRecordsOf(rs.document_id, rs.content, NumChunks(rs.content)))
          /\ run' = [run EXCEPT ![r].pc = "mark_indexed"]
          /\ UNCHANGED hist
    /\ UNCHANGED <<chunker, embedder, client, connections, deleting, import_jobs, documents, vectors, worker, hook, next_ids>>

\* Lines 366-367: the counters of a file that was indexed.
FileIndexed(rs) ==
    [NextFile(rs) EXCEPT !.files_processed = @ + 1,
                         !.total_chunks = @ + NumChunks(rs.content)]

\* Lines 359-369: status indexed with the chunk count, then the counters.
RunMarkIndexed(r) ==
    LET rs == run[r] IN
    /\ rs.pc = "mark_indexed"
    /\ \/ /\ Raise(r, "update_document_status")
          /\ UNCHANGED documents
       \/ /\ documents' = UpdateDocumentStatus(documents, rs.document_id, "indexed",
                                               NumChunks(rs.content), "")
          /\ run' = [run EXCEPT ![r] = FileIndexed(rs)]
          /\ hist' = [hist EXCEPT !.indexed_by_run = @ \cup {<<r, rs.document_id>>}]
    /\ UNCHANGED <<chunker, embedder, client, connections, deleting, import_jobs, chunks, vectors, worker, hook, next_ids>>

\* Lines 379-396: after the last file, the final update.
RunFinish(r) ==
    LET rs == run[r] IN
    /\ rs.pc = "file"
    /\ rs.idx > Len(rs.all_files)
    /\ import_jobs' = UpdateImportJobProgress(import_jobs, rs.job_id,
            [status |-> "completed", files_processed |-> rs.files_processed,
             files_failed |-> rs.files_failed,
             total_chunks_created |-> rs.total_chunks,
             error_log |-> rs.error_log])
    /\ run' = [run EXCEPT ![r].pc = "done"]
    /\ hist' = [hist EXCEPT !.snap[rs.job_id] =
                  [taken |-> TRUE, documents |-> documents, chunks |-> chunks,
                   vectors |-> vectors]]
    /\ UNCHANGED <<chunker, embedder, client, connections, deleting, documents, chunks, vectors, worker, hook, next_ids>>

RunStep(r) ==
    \/ RunStart(r)
    \/ RunAuthenticate(r)
    \/ RunSetup(r)
    \/ RunFileBegin(r)
    \/ RunUpsertDocument(r)
    \/ RunMarkProcessing(r)
    \/ RunExtract(r)
    \/ RunDeleteByDocument(r)
    \/ RunDeleteChunksByDocument(r)
    \/ RunUpsertVectors(r)
    \/ RunCreateChunks(r)
    \/ RunMarkIndexed(r)
    \/ RunFinish(r)

\* -------------------------------------------------------------- worker_loop

\* A mutant of PendingJobs: the poll filters on another status.
PendingJobsWrongStatus == {j \in DOMAIN import_jobs : import_jobs[j].status = "crawling"}

\* list_import_jobs(status="pending", limit=1): ORDER BY created_at DESC.
PendingJobs == {j \in DOMAIN import_jobs : import_jobs[j].status = "pending"}

NewestPending == CHOOSE j \in PendingJobs : \A k \in PendingJobs : k <= j

\* Lines 49-60: poll; with no pending job the loop sleeps and polls again.
WorkerPoll ==
    /\ worker.pc = "poll"
    /\ PendingJobs # {}
    /\ worker' = [pc |-> "get_import_job", job_id |-> NewestPending]
    /\ UNCHANGED <<chunker, embedder, client, connections, deleting, import_jobs, documents, chunks, vectors, run, hook,
                   next_ids, hist>>

\* Lines 62-66: the full row of the job found.
WorkerGetJob ==
    /\ worker.pc = "get_import_job"
    /\ worker' = IF worker.job_id \in DOMAIN import_jobs
                 THEN [worker EXCEPT !.pc = "get_connection"]
                 ELSE [pc |-> "poll", job_id |-> NoJob]
    /\ UNCHANGED <<chunker, embedder, client, connections, deleting, import_jobs, documents, chunks, vectors, run, hook,
                   next_ids, hist>>

\* Lines 68-93: the connection of the job; without it the job is set to
\* failed, with it run_import_job is awaited.  The connection id was read
\* from the job row in the step before.
WorkerGetConnection(conn) ==
    /\ worker.pc = "get_connection"
    /\ conn = hist.job_conn[worker.job_id]
    /\ IF conn \in connections
       THEN /\ run' = [run EXCEPT ![Worker] =
                         [IdleRun EXCEPT !.pc = "start", !.job_id = worker.job_id,
                                         !.connection_id = conn,
                                         !.recursive = import_jobs[worker.job_id].recursive]]
            /\ worker' = [worker EXCEPT !.pc = "run_import_job"]
            /\ UNCHANGED import_jobs
       ELSE /\ import_jobs' = UpdateImportJobProgress(import_jobs, worker.job_id,
                   [status |-> "failed",
                    error_log |-> <<[file |-> NoFile, error |-> "Connection not found"]>>])
            /\ worker' = [pc |-> "poll", job_id |-> NoJob]
            /\ UNCHANGED run
    /\ UNCHANGED <<chunker, embedder, client, connections, deleting, documents, chunks, vectors, hook, next_ids, hist>>

\* Line 94: run_import_job returned; the loop polls again.
WorkerJobFinished ==
    /\ worker.pc = "run_import_job"
    /\ run[Worker].pc = "done"
    /\ run' = [run EXCEPT ![Worker] = IdleRun]
    /\ worker' = [pc |-> "poll", job_id |-> NoJob]
    /\ UNCHANGED <<chunker, embedder, client, connections, deleting, import_jobs, documents, chunks, vectors, hook,
                   next_ids, hist>>

\* ----------------------------------------------------- process_notification

\* The task ends: it returned, or its exception was logged (lines 487-488).
HookEnds == hook' = IdleHook

\* process_notification up to the first access of the stores.  For a
\* deletion (handle_file_deleted, lines 498-515) that is the SELECT of the
\* document; for a change (handle_file_changed, lines 544-604) the item is
\* fetched, downloaded and extracted first.
HookReceive(change_type, conn, item) ==
    /\ hook.pc = "idle"
    /\ next_ids.notification <= MaxNotifications
    /\ next_ids' = [next_ids EXCEPT !.notification = @ + 1]
    /\ \/ HookEnds       \* unknown connection, authenticate raised, item not fetched
       \/ /\ conn \in connections
          /\ change_type = "deleted"
          /\ IF DocsByKey(documents, conn, item) = {}
             THEN HookEnds
             ELSE hook' = [IdleHook EXCEPT
                     !.pc = "deleted_vectors", !.change_type = change_type,
                     !.connection_id = conn, !.item = item,
                     !.document_id = (CHOOSE d \in DocsByKey(documents, conn, item) : TRUE).id]
       \/ /\ conn \in connections
          /\ change_type = "updated"
          /\ \E c \in Contents :
               IF HookNoText(c)
               THEN HookEnds
               ELSE hook' = [IdleHook EXCEPT
                       !.pc = "upsert_document", !.change_type = change_type,
                       !.connection_id = conn, !.item = item, !.content = c]
    /\ UNCHANGED <<chunker, embedder, client, connections, deleting, import_jobs, documents, chunks, vectors, run, worker, hist>>

\* handle_file_deleted, line 518.
HookDeletedVectors ==
    /\ hook.pc = "deleted_vectors"
    /\ \/ /\ HookEnds
          /\ UNCHANGED vectors
       \/ /\ vectors' = DeleteByDocument(vectors, hook.document_id)
          /\ hook' = [hook EXCEPT !.pc = "deleted_chunks"]
    /\ UNCHANGED <<chunker, embedder, client, connections, deleting, import_jobs, documents, chunks, run, worker, next_ids, hist>>

\* handle_file_deleted, line 521.
HookDeletedChunks ==
    /\ hook.pc = "deleted_chunks"
    /\ \/ /\ HookEnds
          /\ UNCHANGED chunks
       \/ /\ chunks' = DeleteChunksByDocument(chunks, hook.document_id)
          /\ hook' = [hook EXCEPT !.pc = "deleted_document"]
    /\ UNCHANGED <<chunker, embedder, client, connections, deleting, import_jobs, documents, vectors, run, worker, next_ids, hist>>

\* A mutant of DeleteDocument: a DELETE without the WHERE clause.
DeleteDocumentAndOthers(docs, id) == {}

\* DELETE FROM documents WHERE id = $1.
DeleteDocument(docs, id) == {d \in docs : d.id # id}

\* handle_file_deleted, lines 523-527.
HookDeletedDocument ==
    /\ hook.pc = "deleted_document"
    /\ HookEnds
    /\ \/ UNCHANGED documents
       \/ documents' = DeleteDocument(documents, hook.document_id)
    /\ UNCHANGED <<chunker, embedder, client, connections, deleting, import_jobs, chunks, vectors, run, worker, next_ids, hist>>

\* handle_file_changed, lines 606-626: upsert_document, then chunk and embed.
HookUpsertDocument ==
    /\ hook.pc = "upsert_document"
    /\ \/ /\ HookEnds
          /\ UNCHANGED <<documents, next_ids>>
       \/ LET row == UpsertedRow(documents, hook.connection_id, hook.item,
                                  hook.content, NoJob, next_ids.doc) IN
          /\ documents' = UpsertDocument(documents, hook.connection_id, hook.item,
                                         hook.content, NoJob, next_ids.doc)
          /\ next_ids' = [next_ids EXCEPT !.doc = IF row.id = @ THEN @ + 1 ELSE @]
          /\ IF NumChunks(hook.content) = 0
             THEN HookEnds
             ELSE \/ HookEnds      \* embed_batch raised
                  \/ hook' = [hook EXCEPT !.document_id = row.id,
                                          !.pc = "delete_by_document"]
    /\ UNCHANGED <<chunker, embedder, client, connections, deleting, import_jobs, chunks, vectors, run, worker, hist>>

\* handle_file_changed, line 629.
HookDeleteByDocument ==
    /\ hook.pc = "delete_by_document"
    /\ \/ /\ HookEnds
          /\ UNCHANGED vectors
       \/ /\ vectors' = DeleteByDocument(vectors, hook.document_id)
          /\ hook' = [hook EXCEPT !.pc = "delete_chunks_by_document"]
    /\ UNCHANGED <<chunker, embedder, client, connections, deleting, import_jobs, documents, chunks, run, worker, next_ids, hist>>

\* handle_file_changed, line 630.
HookDeleteChunksByDocument ==
    /\ hook.pc = "delete_chunks_by_document"
    /\ \/ /\ HookEnds
          /\ UNCHANGED chunks
       \/ /\ chunks' = DeleteChunksByDocument(chunks, hook.document_id)
          /\ hook' = [hook EXCEPT !.pc = "upsert_vectors"]
    /\ UNCHANGED <<chunker, embedder, client, connections, deleting, import_jobs, documents, vectors, run, worker, next_ids, hist>>

\* handle_file_changed, lines 632-661.
HookUpsertVectors ==
    /\ hook.pc = "upsert_vectors"
    /\ \/ /\ HookEnds
          /\ UNCHANGED vectors
       \/ /\ vectors' = UpsertVectors(vectors,
                 VectorsOf(hook.document_id, hook.connection_id, hook.content,
                           NumChunks(hook.content)))
          /\ hook' = [hook EXCEPT !.pc = "create_chunks"]
    /\ UNCHANGED <<chunker, embedder, client, connections, deleting, import_jobs, documents, chunks, run, worker, next_ids, hist>>

\* handle_file_changed, line 662.
HookCreateChunks ==
    /\ hook.pc = "create_chunks"
    /\ \/ /\ HookEnds
          /\ UNCHANGED chunks
       \/ /\ chunks' = CreateChunks(chunks,
                 ChunkRecordsOf(hook.document_id, hook.content, NumChunks(hook.content)))
          /\ hook' = [hook EXCEPT !.pc = "mark_indexed"]
    /\ UNCHANGED <<chunker, embedder, client, connections, deleting, import_jobs, documents, vectors, run, worker, next_ids, hist>>

\* handle_file_changed, lines 664-669.
HookMarkIndexed ==
    /\ hook.pc = "mark_indexed"
    /\ HookEnds
    /\ \/ UNCHANGED <<documents, hist>>
       \/ /\ documents' = UpdateDocumentStatus(documents, hook.document_id, "indexed",
                                               NumChunks(hook.content), "")
          /\ hist' = [hist EXCEPT !.indexed_by_hook = @ \cup {hook.document_id}]
    /\ UNCHANGED <<chunker, embedder, client, connections, deleting, import_jobs, chunks, vectors, run, worker, next_ids>>

HookStep ==
    \/ HookDeletedVectors
    \/ HookDeletedChunks
    \/ HookDeletedDocument
    \/ HookUpsertDocument
    \/ HookDeleteByDocument
    \/ HookDeleteChunksByDocument
    \/ HookUpsertVectors
    \/ HookCreateChunks
    \/ HookMarkIndexed

ChangeTypes == {"updated", "deleted"}

\* ------------------------------------------------------------ TextChunker

\* A text is a sequence of characters: two letters, the space, the newline.
Letters == {"a", "b"}

Alphabet == Letters \cup {" ", "\n"}

Texts == UNION {[1..n -> Alphabet] : n \in 0..MaxTextLen}

\* The TextChunker instances examined (lines 31-46).
Chunkers ==
    {[chunk_size |-> ChunkSize, chunk_overlap |-> ChunkOverlap,
      min_chunk_size |-> MinChunkSize]}

IsSpace(ch) == ch \in {" ", "\n"}

Drop(s, n) == SubSeq(s, n + 1, Len(s))

RECURSIVE LStrip(_)
LStrip(s) == IF s # <<>> /\ IsSpace(Head(s)) THEN LStrip(Tail(s)) ELSE s

RECURSIVE RStrip(_)
RStrip(s) ==
    IF s # <<>> /\ IsSpace(s[Len(s)]) THEN RStrip(SubSeq(s, 1, Len(s) - 1)) ELSE s

\* str.strip().
StrStrip(s) == RStrip(LStrip(s))

Matches(s, sep, i) == i + Len(sep) - 1 <= Len(s) /\ SubSeq(s, i, i + Len(sep) - 1) = sep

\* str.split(sep) for a separator that is not empty.
RECURSIVE Split(_, _)
Split(s, sep) ==
    LET found == {i \in 1..Len(s) : Matches(s, sep, i)} IN
    IF found = {}
    THEN <<s>>
    ELSE LET i == CHOOSE k \in found : \A m \in found : k <= m IN
         <<SubSeq(s, 1, i - 1)>> \o Split(Drop(s, i + Len(sep) - 1), sep)

\* The length of the leading whitespace of s.
WhiteLen(s) ==
    CHOOSE n \in 0..Len(s) :
        /\ \A i \in 1..n : IsSpace(s[i])
        /\ n = Len(s) \/ ~IsSpace(s[n + 1])

\* The first token of a text that is not empty, after the pattern of
\* cl100k_base: a letter with the space before it; whitespace up to its
\* last newline; whitespace at the end of the text; whitespace but for the
\* space that goes with the next letter.  Every letter is a token.
TokenLen(s) ==
    IF s[1] \in Letters THEN 1
    ELSE IF s[1] = " " /\ Len(s) >= 2 /\ s[2] \in Letters THEN 2
    ELSE LET w == WhiteLen(s)
             newlines == {i \in 1..w : s[i] = "\n"} IN
         IF newlines # {} THEN CHOOSE i \in newlines : \A k \in newlines : k <= i
         ELSE IF w = Len(s) THEN w
         ELSE w - 1

\* tokenizer.encode: the tokens of the text, each the characters it stands for.
RECURSIVE Encode(_)
Encode(s) ==
    IF s = <<>> THEN <<>>
    ELSE <<SubSeq(s, 1, TokenLen(s))>> \o Encode(Drop(s, TokenLen(s)))

\* tokenizer.decode.
RECURSIVE Decode(_)
Decode(tokens) == IF tokens = <<>> THEN <<>> ELSE Head(tokens) \o Decode(Tail(tokens))

CountTokens(text) == Len(Encode(text))

\* re.sub(r'[ \t]+', ' ', text) of _clean_text.
RECURSIVE CollapseSpaces(_)
CollapseSpaces(s) ==
    IF s = <<>> THEN <<>>
    ELSE IF Len(s) >= 2 /\ s[1] = " " /\ s[2] = " " THEN CollapseSpaces(Tail(s))
    ELSE <<Head(s)>> \o CollapseSpaces(Tail(s))

\* re.sub(r'\n{3,}', '\n\n', text) of _clean_text.
RECURSIVE CollapseNewlines(_)
CollapseNewlines(s) ==
    IF s = <<>> THEN <<>>
    ELSE IF Len(s) >= 3 /\ s[1] = "\n" /\ s[2] = "\n" /\ s[3] = "\n"
         THEN CollapseNewlines(Tail(s))
    ELSE <<Head(s)>> \o CollapseNewlines(Tail(s))

\* _clean_text; the texts hold no carriage return and no tab.
CleanText(text) == StrStrip(CollapseNewlines(CollapseSpaces(text)))

\* The separators of _recursive_split, in order of preference.
Separators ==
    << <<"\n", "\n">>, <<"\n">>, <<".", " ">>, <<"!", " ">>, <<"?", " ">>,
       <<";", " ">>, <<",", " ">>, <<" ">>, <<>> >>

NotEmpty(s) == s # <<>>

\* _force_split: windows of chunk_size tokens, chunk_size - chunk_overlap
\* tokens apart; a blank window is left out.
ForceSplit(self, text) ==
    LET tokens == Encode(text)
        step == self.chunk_size - self.chunk_overlap
        n == (Len(tokens) + step - 1) \div step
        windows == [k \in 1..n |->
                      LET i == (k - 1) * step
                          last == IF i + self.chunk_size < Len(tokens)
                                  THEN i + self.chunk_size ELSE Len(tokens) IN
                      StrStrip(Decode(SubSeq(tokens, i + 1, last)))] IN
    SelectSeq(windows, NotEmpty)

\* _add_overlap: every chunk but the first is prefixed with the stripped
\* text of the last chunk_overlap tokens of the chunk before it in the
\* list given, when that chunk has more tokens than that.
AddOverlap(self, chunk_list) ==
    IF Len(chunk_list) <= 1 \/ self.chunk_overlap = 0
    THEN chunk_list
    ELSE [i \in 1..Len(chunk_list) |->
            IF i = 1 THEN chunk_list[1]
            ELSE LET prev_tokens == Encode(chunk_list[i - 1]) IN
                 IF Len(prev_tokens) > self.chunk_overlap
                 THEN StrStrip(Decode(SubSeq(prev_tokens,
                                             Len(prev_tokens) - self.chunk_overlap + 1,
                                             Len(prev_tokens))))
                      \o <<" ">> \o chunk_list[i]
                 ELSE chunk_list[i]]

\* _split_recursive (lines 128-196) and its loop over the splits (lines
\* 157-193), which carries the chunks made and the chunk being filled.
RECURSIVE SplitRecursive(_, _, _)
RECURSIVE MergeSplits(_, _, _, _, _, _)
Flush(self, current_chunk, remaining_separators, chunk_list) ==
    IF current_chunk = <<>> THEN chunk_list
    ELSE IF CountTokens(current_chunk) > self.chunk_size
    THEN chunk_list \o SplitRecursive(self, current_chunk, remaining_separators)
    ELSE Append(chunk_list, StrStrip(current_chunk))

MergeSplits(self, splits, separator, remaining_separators, chunk_list, current_chunk) ==
    IF splits = <<>>
    THEN Flush(self, current_chunk, remaining_separators, chunk_list)
    ELSE LET split == Head(splits)
             test_chunk == IF current_chunk # <<>>
                           THEN current_chunk \o separator \o split
                           ELSE split IN
         IF CountTokens(test_chunk) <= self.chunk_size
         THEN MergeSplits(self, Tail(splits), separator, remaining_separators,
                          chunk_list, test_chunk)
         ELSE LET flushed == Flush(self, current_chunk, remaining_separators, chunk_list) IN
              IF CountTokens(split) > self.chunk_size
              THEN MergeSplits(self, Tail(splits), separator, remaining_separators,
                               flushed \o SplitRecursive(self, split, remaining_separators),
                               <<>>)
              ELSE MergeSplits(self, Tail(splits), separator, remaining_separators,
                               flushed, split)

SplitRecursive(self, text, separators) ==
    IF CountTokens(text) <= self.chunk_size
    THEN IF StrStrip(text) # <<>> THEN <<StrStrip(text)>> ELSE <<>>
    ELSE IF separators = <<>> THEN ForceSplit(self, text)
    ELSE IF Head(separators) = <<>> THEN ForceSplit(self, text)
    ELSE AddOverlap(self, MergeSplits(self, Split(text, Head(separators)),
                                      Head(separators), Tail(separators), <<>>, <<>>))

\* A mutant of NextIndex: the position in the list of all chunks.
NextIndexOfEnumerate(result, idx) == idx - 1

\* index=len(result), line 96; idx counts the chunks from 1.
NextIndex(result, idx) == Len(result)

\* The loop of chunk_text (lines 80-106) from chunk idx on.
RECURSIVE ChunkObjects(_, _, _, _, _)
ChunkObjects(self, chunk_list, idx, result, char_offset) ==
    IF idx > Len(chunk_list) THEN result
    ELSE LET chunk_text == chunk_list[idx]
             token_count == CountTokens(chunk_text) IN
         IF token_count < self.min_chunk_size /\ idx < Len(chunk_list)
         THEN ChunkObjects(self, chunk_list, idx + 1, result, char_offset)
         ELSE ChunkObjects(self, chunk_list, idx + 1,
                  Append(result, [content |-> chunk_text,
                                  index |-> NextIndex(result, idx),
                                  start_char |-> char_offset,
                                  end_char |-> char_offset + Len(chunk_text),
                                  token_count |-> token_count]),
                  char_offset + Len(chunk_text))

\* One call of chunk_text.  The texts hold no page marker, so lines 73-74
\* find none and remove none.
ChunkerInputs ==
    {[op |-> "chunk_text", pc |-> "ready", self |-> self, text |-> text,
      cleaned |-> <<>>, chunks |-> <<>>, result |-> <<>>] :
        self \in Chunkers, text \in Texts}

\* chunk_text (lines 52-109): cleaned is the text after line 74, chunks the
\* list of line 77, result the list returned.
ChunkText ==
    /\ chunker.op = "chunk_text"
    /\ chunker.pc = "ready"
    /\ IF StrStrip(chunker.text) = <<>>
       THEN chunker' = [chunker EXCEPT !.pc = "returned"]
       ELSE LET cleaned == CleanText(chunker.text)
                chunks_ == SplitRecursive(chunker.self, cleaned, Separators) IN
            chunker' = [chunker EXCEPT
                          !.pc = "returned", !.cleaned = cleaned, !.chunks = chunks_,
                          !.result = ChunkObjects(chunker.self, chunks_, 1, <<>>, 0)]
    /\ UNCHANGED <<embedder, client, connections, deleting, import_jobs, documents, chunks, vectors,
                   run, worker, hook, next_ids, hist>>

\* ---------------------------------------------------- list_folder_contents

\* SUPPORTED_EXTENSIONS (client.py lines 118-123), and the extensions of the
\* items of the drive.
SUPPORTED_EXTENSIONS ==
    {".pdf", ".docx", ".doc", ".xlsx", ".xls", ".pptx", ".ppt", ".txt", ".csv",
     ".md", ".html", ".htm", ".json", ".xml", ".png", ".jpg", ".jpeg"}
Extensions == {".pdf", ".exe"}

\* One call of list_folder_contents on a folder whose listing has `pages`
\* pages; page k holds sub-folder k and file k, whose extension is ext[k],
\* and all pages but the last carry an @odata.nextLink.
\* attempt_number is the attempt of the retry decorator under way, page the
\* page the while loop requests next, files and folders the lists of the
\* attempt under way, log the outcomes of the requests made so far.
ListInputs ==
    UNION {{[op |-> "list", pc |-> "running", pages |-> pages, ext |-> ext,
             attempt_number |-> 1, page |-> 1, files |-> <<>>, folders |-> <<>>,
             requests |-> 0, log |-> <<>>, error |-> ""] :
               ext \in [1..pages -> Extensions]} : pages \in 1..MaxPages}

\* The "value" of page k.
PageItems(call, k) ==
    <<[kind |-> "folder", id |-> k, ext |-> ""],
      [kind |-> "file", id |-> k, ext |-> call.ext[k]]>>

IsFolder(item) == item.kind = "folder"

IsSupportedFile(item) == item.kind = "file" /\ item.ext \in SUPPORTED_EXTENSIONS

\* The loop over the items of a page (lines 379-415).
ReadPage(call, k) ==
    [call EXCEPT !.folders = @ \o SelectSeq(PageItems(call, k), IsFolder),
                 !.files = @ \o SelectSeq(PageItems(call, k), IsSupportedFile)]

\* A mutant of Restart: the lists of the failed attempt are kept.
RestartKeepsItems(call) == [call EXCEPT !.attempt_number = @ + 1, !.page = 1]

\* The decorator calls the function again: the lists are new and empty
\* (lines 361-362), the url is that of the first page (line 364).
Restart(call) ==
    [call EXCEPT !.attempt_number = @ + 1, !.page = 1,
                 !.files = <<>>, !.folders = <<>>]

\* The outcomes of one request (lines 375-377): a page; an exception of the
\* types the decorator retries (HTTPStatusError of raise_for_status,
\* RequestError, TimeoutException); any other exception (a body that is
\* not JSON).
RequestOutcomes == {"ok", "http_error", "other_error"}

\* A mutant of Stop: one attempt more than configured.
StopOneLate(attempt_number) == attempt_number > LIST_ATTEMPTS

\* stop_after_attempt(5), line 347.
Stop(attempt_number) == attempt_number >= LIST_ATTEMPTS

\* One request of the while loop (lines 372-420) and what the decorator
\* does with its exception (lines 346-351): a retried exception starts the
\* function again from the first page unless Stop, then RetryError; any
\* other exception leaves the call at once.
ListRequest(outcome) ==
    /\ client.op = "list"
    /\ client.pc = "running"
    /\ LET made == [client EXCEPT !.requests = @ + 1, !.log = Append(@, outcome)] IN
       client' =
         IF outcome = "ok"
         THEN IF client.page < client.pages
              THEN [ReadPage(made, client.page) EXCEPT !.page = @ + 1]
              ELSE [ReadPage(made, client.page) EXCEPT !.pc = "returned"]
         ELSE IF outcome = "http_error"
         THEN IF Stop(client.attempt_number)
              THEN [made EXCEPT !.pc = "raised", !.error = "RetryError"]
              ELSE Restart(made)
         ELSE [made EXCEPT !.pc = "raised", !.error = outcome]
    /\ UNCHANGED <<chunker, embedder, connections, deleting, import_jobs, documents, chunks, vectors, run, worker,
                   hook, next_ids, hist>>

\* ------------------------------------------------- crawl_folder_recursive

\* The drive a crawl walks: folder 1 is the folder the crawl starts from.
\* children[f] and items[f] are what the listing of folder f holds, in the
\* order of the listing; failing are the folders whose listing raises
\* (RetryError after the retries, or any other exception).
Folders == 1..NFolders
CrawlFiles == 1..NCrawlFiles
Root == 1

RECURSIVE SortedSeq(_)
SortedSeq(S) ==
    IF S = {} THEN <<>>
    ELSE LET least == CHOOSE x \in S : \A y \in S : x <= y IN
         <<least>> \o SortedSeq(S \ {least})

\* The trees over Folders rooted at Root, as a parent function.
Trees == {parent \in [Folders \ {Root} -> Folders] : \A f \in DOMAIN parent : parent[f] < f}

CrawlInputs ==
    {[op |-> "crawl", pc |-> "ready",
      children |-> [f \in Folders |-> SortedSeq({g \in DOMAIN parent : parent[g] = f})],
      items |-> [f \in Folders |-> SortedSeq({i \in CrawlFiles : folder_of[i] = f})],
      ext |-> ext, failing |-> failing, max_depth |-> max_depth,
      out |-> <<>>, raised |-> FALSE] :
        parent \in Trees, folder_of \in [CrawlFiles -> Folders],
        ext \in [CrawlFiles -> Extensions], failing \in SUBSET Folders,
        max_depth \in 0..MaxDepthArg}

\* list_folder_contents as the crawl sees it: the allow-listed files and the
\* sub-folders of the listing, or an exception.
ListFolderContents(c, fid) ==
    [files |-> SelectSeq(c.items[fid], LAMBDA i : c.ext[i] \in SUPPORTED_EXTENSIONS),
     folders |-> c.children[fid],
     raised |-> fid \in c.failing]

\* A mutant of TooDeep: the branch is cut one level late.
TooDeepOneLate(depth, max_depth) == depth > max_depth + 1

\* A mutant of TooDeep: the branch is cut one level early.
TooDeepOffByOne(depth, max_depth) == depth >= max_depth

\* Line 448.
TooDeep(depth, max_depth) == depth > max_depth

\* A mutant of Caught: no except arm, the exception leaves crawl().
NotCaught(result) == result

\* Lines 477-478: whatever was raised inside crawl() is logged there; what
\* was yielded before stays yielded and crawl() ends normally.
Caught(result) == [result EXCEPT !.raised = FALSE]

\* crawl(fid, depth, path), lines 447-478: the files it yields, in order, and
\* whether an exception leaves it.
RECURSIVE CrawlFolder(_, _, _)
RECURSIVE CrawlSubfolders(_, _, _, _)
CrawlFolder(c, fid, depth) ==
    IF TooDeep(depth, c.max_depth) THEN [out |-> <<>>, raised |-> FALSE]
    ELSE LET listing == ListFolderContents(c, fid) IN
         Caught(IF listing.raised THEN [out |-> <<>>, raised |-> TRUE]
                ELSE CrawlSubfolders(c, listing.folders, depth, listing.files))

\* Lines 466-475: the sub-folders one after the other, each crawled to its
\* end before the next; yielded is what crawl() has yielded so far.
CrawlSubfolders(c, folders, depth, yielded) ==
    IF folders = <<>> THEN [out |-> yielded, raised |-> FALSE]
    ELSE LET sub == CrawlFolder(c, Head(folders), depth + 1) IN
         IF sub.raised THEN [out |-> yielded \o sub.out, raised |-> TRUE]
         ELSE CrawlSubfolders(c, Tail(folders), depth, yielded \o sub.out)

\* crawl_folder_recursive consumed to its end, as lines 223-228 of
\* run_import_job do.
CrawlFolderRecursive ==
    /\ client.op = "crawl"
    /\ client.pc = "ready"
    /\ LET result == CrawlFolder(client, Root, 0) IN
       client' = [client EXCEPT !.pc = "done", !.out = result.out,
                                !.raised = result.raised]
    /\ UNCHANGED <<chunker, embedder, connections, deleting, import_jobs, documents, chunks, vectors, run, worker,
                   hook, next_ids, hist>>

\* The drives of CrawlInputs with one more entry in the listing of folder
\* link[1]: folder link[2], which may be link[1] itself or a folder above
\* it.  stack holds the calls of crawl() under way, the innermost last;
\* listed the folders whose listing was requested, with the depth of the
\* call that did.
GraphInputs ==
    {[op |-> "crawl", pc |-> "crawling",
      children |-> [f \in Folders |->
                      SortedSeq({g \in DOMAIN parent : parent[g] = f}
                                \cup (IF f = link[1] THEN {link[2]} ELSE {}))],
      items |-> [f \in Folders |-> SortedSeq({i \in CrawlFiles : folder_of[i] = f})],
      ext |-> ext, failing |-> failing, max_depth |-> max_depth,
      out |-> <<>>, raised |-> FALSE,
      stack |-> <<[fid |-> Root, depth |-> 0, at |-> "start", folders |-> <<>>]>>,
      listed |-> <<>>] :
        parent \in Trees, link \in Folders \X Folders,
        folder_of \in [CrawlFiles -> Folders], ext \in [CrawlFiles -> Extensions],
        failing \in SUBSET Folders, max_depth \in 0..MaxDepthArg}

Top(stack) == stack[Len(stack)]

\* The call of crawl() on top of the stack returns to the loop of its
\* caller; the crawl is done when the outermost call returns.
Return(call) ==
    [call EXCEPT !.stack = SubSeq(@, 1, Len(@) - 1),
                 !.pc = IF Len(call.stack) = 1 THEN "done" ELSE "crawling"]

\* crawl() from its first line to the end of the loop over the files (lines
\* 448-464): it returns when too deep or when the listing raised, which the
\* except arm of lines 477-478 logs; else it yields the files.
CrawlList ==
    /\ client.op = "crawl"
    /\ client.pc = "crawling"
    /\ Top(client.stack).at = "start"
    /\ LET frame == Top(client.stack)
           listing == ListFolderContents(client, frame.fid)
           asked == [client EXCEPT !.listed = Append(@, [fid |-> frame.fid,
                                                         depth |-> frame.depth])] IN
       client' =
         IF TooDeep(frame.depth, client.max_depth) THEN Return(client)
         ELSE IF listing.raised THEN Return(asked)
         ELSE [asked EXCEPT !.out = @ \o listing.files,
                            !.stack[Len(client.stack)].at = "folders",
                            !.stack[Len(client.stack)].folders = listing.folders]
    /\ UNCHANGED <<chunker, embedder, connections, deleting, import_jobs, documents, chunks, vectors,
                   run, worker, hook, next_ids, hist>>

\* One turn of the loop over the sub-folders (lines 466-475): crawl() is
\* called for the next one, or the loop is over and the call returns.
CrawlEnter ==
    /\ client.op = "crawl"
    /\ client.pc = "crawling"
    /\ Top(client.stack).at = "folders"
    /\ LET frame == Top(client.stack) IN
       client' =
         IF frame.folders = <<>> THEN Return(client)
         ELSE [client EXCEPT
                 !.stack = Append([@ EXCEPT ![Len(@)].folders = Tail(frame.folders)],
                                  [fid |-> Head(frame.folders), depth |-> frame.depth + 1,
                                   at |-> "start", folders |-> <<>>])]
    /\ UNCHANGED <<chunker, embedder, connections, deleting, import_jobs, documents, chunks, vectors,
                   run, worker, hook, next_ids, hist>>

\* ------------------------------------------------- TextEmbedder.embed_batch

ChunkContents == {"x", "y"}

\* The embedding the API computes for a text.
Embedding(text) == [of |-> text]

\* The files whose chunking returned at least one chunk: chunk k of the
\* list has index k - 1 (chunk_text, line 100).
EmbedderInputs ==
    {[op |-> "embed_batch", pc |-> "request", document_id |-> 1, chunks |-> chunk_list,
      attempt_number |-> 1, i |-> 0, all_embeddings |-> <<>>, reordered |-> FALSE,
      embeddings |-> <<>>] :
        chunk_list \in UNION {[1..n -> [content : ChunkContents, index : {0}]] :
                                 n \in 1..MaxChunks}}

EmbedderCalls ==
    {[c EXCEPT !.chunks = [k \in DOMAIN c.chunks |-> [c.chunks[k] EXCEPT !.index = k - 1]]] :
        c \in EmbedderInputs}

\* texts[i:i + batch_size]
Batch(texts, i, batch_size) ==
    SubSeq(texts, i + 1, IF i + batch_size < Len(texts) THEN i + batch_size ELSE Len(texts))

\* What the API returns for a batch, in the order given: one item for each
\* input, with the position of the input as its index.
ResponseData(batch, order) ==
    [k \in DOMAIN batch |-> [index |-> order[k] - 1, embedding |-> Embedding(batch[order[k]])]]

Orders(n) == {o \in [1..n -> 1..n] : \A a, b \in 1..n : o[a] = o[b] => a = b}

\* A mutant of SortByIndex: the response is taken in the order it came.
SortByIndexNoop(data) == data

RECURSIVE SortByIndex(_)
\* sorted(response.data, key=lambda x: x.index)
SortByIndex(data) ==
    IF data = <<>> THEN <<>>
    ELSE LET rest == SortByIndex(Tail(data))
             before == SelectSeq(rest, LAMBDA x : x.index < Head(data).index)
             after == SelectSeq(rest, LAMBDA x : x.index >= Head(data).index) IN
         before \o <<Head(data)>> \o after

\* zip(chunks, embeddings)
Zip(xs, ys) ==
    [k \in 1..(IF Len(xs) < Len(ys) THEN Len(xs) ELSE Len(ys)) |-> <<xs[k], ys[k]>>]

\* The points prepared at lines 314-336 of run_import_job.
PrepareVectors(document_id, chunk_list, embeddings) ==
    LET pairs == Zip(chunk_list, embeddings) IN
    {[id |-> <<document_id, pairs[k][1].index>>, embedding |-> pairs[k][2],
      content |-> pairs[k][1].content, document_id |-> document_id,
      chunk_index |-> pairs[k][1].index, connection_id |-> 1] : k \in DOMAIN pairs}

\* One request of embed_batch: it raises, and tenacity calls embed_batch
\* again from its first line or gives up after the third attempt; or it
\* answers and the loop goes on to the next batch, or returns.
EmbedRequest ==
    /\ embedder.op = "embed_batch"
    /\ embedder.pc = "request"
    /\ LET texts == [k \in DOMAIN embedder.chunks |-> embedder.chunks[k].content]
           batch == Batch(texts, embedder.i, BatchSize) IN
       \/ embedder' =
            IF embedder.attempt_number < EMBED_ATTEMPTS
            THEN [embedder EXCEPT !.attempt_number = @ + 1, !.i = 0,
                                  !.all_embeddings = <<>>]
            ELSE [embedder EXCEPT !.pc = "raised"]
       \/ \E order \in Orders(Len(batch)) :
            LET data == ResponseData(batch, order)
                sorted_data == SortByIndex(data)
                batch_embeddings == [k \in DOMAIN sorted_data |-> sorted_data[k].embedding]
                all == embedder.all_embeddings \o batch_embeddings
                more == embedder.i + BatchSize < Len(texts) IN
            embedder' = [embedder EXCEPT
                           !.all_embeddings = all,
                           !.i = @ + BatchSize,
                           !.reordered = @ \/ (data # sorted_data),
                           !.embeddings = IF more THEN @ ELSE all,
                           !.pc = IF more THEN "request" ELSE "returned"]
    /\ UNCHANGED <<chunker, client, connections, deleting, import_jobs, documents, chunks,
                   vectors, run, worker, hook, next_ids, hist>>

\* Lines 314-353 of run_import_job: the points are prepared from the chunks
\* and the embeddings, the points of the document deleted and the new ones
\* stored.
EmbedStore ==
    /\ embedder.op = "embed_batch"
    /\ embedder.pc = "returned"
    /\ vectors' = UpsertVectors(DeleteByDocument(vectors, embedder.document_id),
                                PrepareVectors(embedder.document_id, embedder.chunks,
                                               embedder.embeddings))
    /\ embedder' = [embedder EXCEPT !.pc = "stored"]
    /\ UNCHANGED <<chunker, client, connections, deleting, import_jobs, documents, chunks,
                   run, worker, hook, next_ids, hist>>

\* ---------------------------------------------------------- specifications

NoPipeline ==
    /\ \A r \in Runners : run[r].pc \in {"idle", "done"}
    /\ hook.pc = "idle"

\* One import job over the folder, run by the background task of its request.
NextJob ==
    \/ \E conn \in ConnectionIds, recursive \in BOOLEAN, file_types \in FileTypeRequests :
          next_ids.job = 1 /\ StartImport(conn, recursive, file_types)
    \/ \E r \in JobIds : RunStep(r)

SpecJob == Init /\ [][NextJob]_vars

\* The background task is an asyncio task: each await of it returns (the
\* clients time out and the retries are bounded), so an invocation that can
\* take a step eventually takes one.
FairSpecJob == SpecJob /\ \A r \in JobIds : WF_vars(RunStep(r))

\* Imports and notifications one after the other: a pipeline starts when no
\* other is under way.  Each import finds at most SeqFiles files.  Here and
\* in the specifications below the requests carry the defaults of
\* ImportRequest: recursive, no file_types.
NextSeq ==
    \/ \E conn \in ConnectionIds : NoPipeline /\ StartImport(conn, TRUE, NoFileTypes)
    \/ \E r \in JobIds : RunStep(r) /\ Len(run'[r].all_files) <= SeqFiles
    \/ \E ct \in ChangeTypes, conn \in ConnectionIds, item \in Files :
          NoPipeline /\ HookReceive(ct, conn, item)
    \/ HookStep

SpecSeq == Init /\ [][NextSeq]_vars

\* One import job that the API's background task and the import worker can
\* both run.
NextRace ==
    \/ \E conn \in ConnectionIds :
          next_ids.job <= ConcJobs /\ StartImport(conn, TRUE, NoFileTypes)
    \/ \E r \in Runners : RunStep(r) /\ Len(run'[r].all_files) <= ConcFiles
    \/ WorkerPoll
    \/ WorkerGetJob
    \/ \E conn \in ConnectionIds : WorkerGetConnection(conn)
    \/ WorkerJobFinished

SpecRace == Init /\ [][NextRace]_vars

\* The worker is not shut down and is scheduled fairly: its loop awaits one
\* call after the other, each of which returns or raises, and the only
\* wait is the sleep of 5 seconds between polls that found nothing.  Nothing
\* is assumed of the API's background tasks, which are lost when the API
\* process stops.
FairSpecWorker ==
    /\ SpecRace
    /\ WF_vars(WorkerPoll)
    /\ WF_vars(WorkerGetJob)
    /\ WF_vars(\E conn \in ConnectionIds : WorkerGetConnection(conn))
    /\ WF_vars(WorkerJobFinished)
    /\ WF_vars(RunStep(Worker) /\ Len(run'[Worker].all_files) <= ConcFiles)

\* Import jobs run by the API's background tasks, concurrently with the
\* notification task.
NextShared ==
    \/ \E conn \in ConnectionIds :
          next_ids.job <= ConcJobs /\ StartImport(conn, TRUE, NoFileTypes)
    \/ \E r \in JobIds : RunStep(r) /\ Len(run'[r].all_files) <= ConcFiles
    \/ \E ct \in ChangeTypes, conn \in ConnectionIds, item \in Files :
          HookReceive(ct, conn, item)
    \/ HookStep

SpecShared == Init /\ [][NextShared]_vars

\* Imports and connection deletions one after the other, over DelConns
\* connections; the requests also name a connection that never existed.
RequestedConnections == 1..(DelConns + 1)

InitConn ==
    /\ InitWith(1..DelConns)
    /\ chunker = NoChunkerCall
    /\ embedder = NoEmbedderCall
    /\ client = NoClientCall

NextConn ==
    \/ \E conn \in RequestedConnections :
          NoPipeline /\ deleting = NoConnection /\ StartImport(conn, TRUE, NoFileTypes)
    \/ \E r \in JobIds : RunStep(r) /\ Len(run'[r].all_files) <= SeqFiles
    \/ \E conn \in RequestedConnections : NoPipeline /\ DeleteConnectionVectors(conn)
    \/ DeleteConnectionRows

SpecConn == InitConn /\ [][NextConn]_vars

\* One call of chunk_text, for every text within the bounds.
InitChunk ==
    /\ InitWith(ConnectionIds)
    /\ client = NoClientCall
    /\ embedder = NoEmbedderCall
    /\ chunker \in ChunkerInputs

NextChunk == ChunkText

SpecChunk == InitChunk /\ [][NextChunk]_vars

\* One recursive crawl of a drive, for every drive within the bounds.
InitCrawl == InitStores /\ client \in CrawlInputs

NextCrawl == CrawlFolderRecursive

SpecCrawl == InitCrawl /\ [][NextCrawl]_vars

\* One recursive crawl, call by call, of a drive whose folder graph may
\* have a cycle.
InitGraph == InitStores /\ client \in GraphInputs

NextGraph == CrawlList \/ CrawlEnter

SpecGraph == InitGraph /\ [][NextGraph]_vars

\* The generator is consumed by the async for of run_import_job and every
\* listing returns or raises (its retries are bounded), so a crawl that can
\* take a step takes one.
FairSpecGraph == SpecGraph /\ WF_vars(NextGraph)

\* The embedding of the chunks of one file and the storing of its vectors.
InitEmbed ==
    /\ InitWith(ConnectionIds)
    /\ chunker = NoChunkerCall
    /\ client = NoClientCall
    /\ embedder \in EmbedderCalls

NextEmbed == EmbedRequest \/ EmbedStore

SpecEmbed == InitEmbed /\ [][NextEmbed]_vars

\* One call of list_folder_contents, for every sequence of request outcomes.
InitList == InitStores /\ client \in ListInputs

NextList == \E outcome \in RequestOutcomes : ListRequest(outcome)

SpecList == InitList /\ [][NextList]_vars

\* ================================================================== claims

JobRows == DOMAIN import_jobs

StatusChanged(j) ==
    /\ j \in JobRows
    /\ j \in DOMAIN import_jobs'
    /\ import_jobs'[j].status # import_jobs[j].status

LegalStatusChanges ==
    {<<"pending", "crawling">>, <<"crawling", "processing">>,
     <<"processing", "completed">>, <<"pending", "failed">>,
     <<"crawling", "failed">>, <<"processing", "failed">>}

\* C1: every change of a job's persisted status is pending->crawling,
\* crawling->processing, processing->completed or X->failed with X one of
\* pending, crawling, processing.
C1_StatusOnlyMovesForward ==
    [][\A j \in JobIds :
         StatusChanged(j) =>
            <<import_jobs[j].status, import_jobs'[j].status>> \in LegalStatusChanges]_vars

Terminal(j) == j \in JobRows /\ import_jobs[j].status \in {"completed", "failed"}

\* C2: once a job's status is completed or failed, no later step changes its
\* status, its counters or its error log.
C2_TerminalJobIsFrozen ==
    [][\A j \in JobIds :
         (Terminal(j) /\ j \in DOMAIN import_jobs') =>
            /\ import_jobs'[j].status = import_jobs[j].status
            /\ import_jobs'[j].total_files_found = import_jobs[j].total_files_found
            /\ import_jobs'[j].files_processed = import_jobs[j].files_processed
            /\ import_jobs'[j].files_failed = import_jobs[j].files_failed
            /\ import_jobs'[j].total_chunks_created = import_jobs[j].total_chunks_created
            /\ import_jobs'[j].error_log = import_jobs[j].error_log]_vars

\* C3: a job whose setup succeeded (its status is processing: the collection
\* check, authentication, folder resolution and enumeration are done)
\* eventually has status completed, whichever of its files fail.
C3_SetupDoneLeadsToCompleted ==
    \A j \in JobIds :
        (j \in JobRows /\ import_jobs[j].status = "processing")
            ~> (j \in JobRows /\ import_jobs[j].status = "completed")

\* A job completed although one file raised, one file failed extraction or
\* was skipped, and one was indexed.
C3_Witness ==
    \E j \in JobRows :
        /\ import_jobs[j].status = "completed"
        /\ import_jobs[j].files_failed >= 1
        /\ import_jobs[j].files_processed >= 1
        /\ hist.raised[j] # {}

\* C4: while an invocation is in setup (before the file loop) none of its
\* steps creates, changes or deletes a document, a chunk row or a vector, and
\* when setup fails (authentication, folder resolution, listing) the job row
\* is left failed, with an error log of exactly one entry and zero files
\* processed.
C4_SetupFailureTouchesNothing ==
    [][\A r \in JobIds :
         (run[r].pc \in {"start", "authenticate", "setup"} /\ run'[r] # run[r]) =>
            /\ UNCHANGED <<documents, chunks, vectors>>
            /\ run'[r].pc = "done" =>
                  /\ import_jobs'[run[r].job_id].status = "failed"
                  /\ Len(import_jobs'[run[r].job_id].error_log) = 1
                  /\ import_jobs'[run[r].job_id].files_processed = 0]_vars

\* A job failed at authentication while documents, chunk rows and vectors
\* of an earlier import are stored.
C4_Witness ==
    \E j \in JobRows :
        /\ run[j].pc = "done"
        /\ import_jobs[j].status = "failed"
        /\ import_jobs[j].error_log = <<[file |-> NoFile, error |-> "authenticate"]>>
        /\ import_jobs[j].files_processed = 0
        /\ documents # {}
        /\ chunks # EmptyBag
        /\ vectors # {}

FileIds(fl) == [i \in 1..Len(fl) |-> fl[i].id]

\* C5: a step in which a call of the per-file pipeline raises adds one to
\* files_failed and appends exactly one record naming the current file to
\* error_log; and when the job is set to completed every file of the list
\* has been attempted, in order, and the persisted error log holds the
\* records of the files that raised.
C5_RaiseCountsOneFileAndLoopGoesOn ==
    [][\A r \in JobIds :
         /\ hist'.raised[r] # hist.raised[r] =>
               /\ run'[r].files_failed = run[r].files_failed + 1
               /\ Len(run'[r].error_log) = Len(run[r].error_log) + 1
               /\ SubSeq(run'[r].error_log, 1, Len(run[r].error_log)) = run[r].error_log
               /\ run'[r].error_log[Len(run'[r].error_log)].file = CurFile(run[r]).id
               /\ hist'.raised[r] = hist.raised[r] \cup {CurFile(run[r]).id}
         /\ (run[r].pc = "file" /\ run'[r].pc = "done") =>
               /\ hist.attempted[r] = FileIds(run[r].all_files)
               /\ import_jobs'[run[r].job_id].error_log = run[r].error_log
               /\ {e.file : e \in {run[r].error_log[i] : i \in 1..Len(run[r].error_log)}}
                     = hist.raised[r]
               /\ Len(run[r].error_log) = Cardinality(hist.raised[r])]_vars

\* The first of two files raised, the second was attempted and indexed, and
\* the job is completed.
C5_Witness ==
    \E j \in JobRows :
        /\ import_jobs[j].status = "completed"
        /\ hist.raised[j] = {1}
        /\ hist.attempted[j] = <<1, 2>>
        /\ import_jobs[j].files_failed = 1
        /\ import_jobs[j].files_processed = 1

\* C6: a completed job in which the extraction of exactly one file k failed,
\* no call raised and every other file was indexed has files_processed +
\* files_failed = total_files_found and an error log of exactly one entry,
\* which names k.
C6_ExtractionFailureIsLogged ==
    \A j \in JobRows : \A k \in Files :
        (/\ run[j].pc = "done"
         /\ import_jobs[j].status = "completed"
         /\ hist.extract_failed[j] = {k}
         /\ hist.raised[j] = {}
         /\ import_jobs[j].files_processed = import_jobs[j].total_files_found - 1) =>
            /\ import_jobs[j].files_processed + import_jobs[j].files_failed
                  = import_jobs[j].total_files_found
            /\ Len(import_jobs[j].error_log) = 1
            /\ import_jobs[j].error_log[1].file = k

VectorsOfDoc(vs, id) == {v \in vs : v.document_id = id}

RowsOfDoc(ch, id) == [row \in ChunkRowsOf(ch, id) |-> ch[row]]

\* What a pipeline at position pc, re-indexing document id with content c,
\* finds in the stores: nothing of the document once both deletes are done,
\* then exactly the new points, then exactly the new points and rows.
Replaced(pc, id, conn, c) ==
    LET points == VectorsOf(id, conn, c, NumChunks(c))
        records == ChunkRecordsOf(id, c, NumChunks(c)) IN
    /\ pc = "upsert_vectors" =>
          VectorsOfDoc(vectors, id) = {} /\ ChunkRowsOf(chunks, id) = {}
    /\ pc = "create_chunks" =>
          VectorsOfDoc(vectors, id) = points /\ ChunkRowsOf(chunks, id) = {}
    /\ pc = "mark_indexed" =>
          VectorsOfDoc(vectors, id) = points /\ RowsOfDoc(chunks, id) = SetToBag(records)

\* C7: in the import pipeline and in the webhook re-index, no point and no
\* chunk row of the document is stored when the first new one is inserted,
\* and when the inserts are done the points and chunk rows of the document
\* are exactly those of the new chunks, also when there are fewer than before.
C7_ReplaceOnReindex ==
    /\ \A r \in JobIds :
          Replaced(run[r].pc, run[r].document_id, run[r].connection_id, run[r].content)
    /\ Replaced(hook.pc, hook.document_id, hook.connection_id, hook.content)

\* The webhook has re-indexed, with one chunk, a document that an import
\* had indexed with two.
C7_Witness ==
    /\ hook.pc = "mark_indexed"
    /\ NumChunks(hook.content) = 1
    /\ \E d \in documents : d.id = hook.document_id /\ d.chunk_count = 2
    /\ \E r \in JobIds : <<r, hook.document_id>> \in hist.indexed_by_run

\* Job k ran over the folder as job j left it: both completed without a
\* failed file, over the same list of the same connection, with no
\* notification before, and every document has the content it had.
SecondRun(j, k) ==
    /\ j < k
    /\ hist.snap[j].taken /\ hist.snap[k].taken
    /\ next_ids.notification = 1
    /\ run[j].connection_id = run[k].connection_id
    /\ run[j].all_files = run[k].all_files
    /\ import_jobs[j].files_failed = 0 /\ import_jobs[k].files_failed = 0
    /\ \A d \in hist.snap[j].documents : \A e \in hist.snap[k].documents :
          (d.connection_id = e.connection_id /\ d.sharepoint_id = e.sharepoint_id)
              => d.content_hash = e.content_hash

\* C8: after a second import over an unchanged folder every file has a
\* single document (none when the first run stored none), with the same id,
\* status and chunk_count as after the first run, the same chunk rows and
\* points, and no chunk row stored twice.
C8_ReimportIsIdempotent ==
    \A j, k \in JobIds :
        SecondRun(j, k) =>
            \A i \in 1..Len(run[k].all_files) :
                LET sp == run[k].all_files[i].id
                    before == DocsByKey(hist.snap[j].documents, run[j].connection_id, sp)
                    after == DocsByKey(hist.snap[k].documents, run[k].connection_id, sp) IN
                /\ Cardinality(after) <= 1
                /\ {<<d.id, d.status, d.chunk_count>> : d \in after}
                      = {<<d.id, d.status, d.chunk_count>> : d \in before}
                /\ \A d \in after :
                      /\ RowsOfDoc(hist.snap[k].chunks, d.id) = RowsOfDoc(hist.snap[j].chunks, d.id)
                      /\ VectorsOfDoc(hist.snap[k].vectors, d.id)
                            = VectorsOfDoc(hist.snap[j].vectors, d.id)
                      /\ \A row \in ChunkRowsOf(hist.snap[k].chunks, d.id) :
                            hist.snap[k].chunks[row] = 1
                      /\ d.status = "indexed" =>
                            Cardinality(ChunkRowsOf(hist.snap[k].chunks, d.id)) = d.chunk_count

\* A second run has re-indexed a document of two chunks.
C8_Witness ==
    \E j, k \in JobIds :
        /\ SecondRun(j, k)
        /\ \E d \in hist.snap[k].documents :
              /\ d.import_job_id = k
              /\ d.status = "indexed"
              /\ d.chunk_count = 2
              /\ <<j, d.id>> \in hist.indexed_by_run
              /\ <<k, d.id>> \in hist.indexed_by_run

\* C9: no two rows of documents have the same (connection_id, sharepoint_id).
C9_OneDocumentPerKey ==
    \A d, e \in documents :
        (d.connection_id = e.connection_id /\ d.sharepoint_id = e.sharepoint_id) => d = e

\* A document an import indexed was upserted again by the webhook.
C9_Witness ==
    \E d \in documents :
        /\ d.import_job_id = NoJob
        /\ \E r \in JobIds : <<r, d.id>> \in hist.indexed_by_run

\* C10: when an import and a webhook re-index have both indexed a document
\* and both have finished, no chunk index of the document is stored in two
\* chunk rows and the number of its chunk rows is its chunk_count.
C10_ReplacesDoNotInterleave ==
    \A d \in documents :
        (/\ NoPipeline
         /\ d.status = "indexed"
         /\ d.id \in hist.indexed_by_hook
         /\ \E r \in JobIds : <<r, d.id>> \in hist.indexed_by_run) =>
            /\ \A row \in ChunkRowsOf(chunks, d.id) : chunks[row] = 1
            /\ \A row, other \in ChunkRowsOf(chunks, d.id) :
                  row.chunk_index = other.chunk_index => row = other
            /\ Cardinality(ChunkRowsOf(chunks, d.id)) = d.chunk_count

Oversize(file) == file.size_bytes > MAX_FILE_SIZE_MB * 1024 * 1024

\* C11: the iteration of a file larger than MAX_FILE_SIZE_MB does not call
\* download_file, leaves documents, chunk rows and vectors as they are and
\* adds nothing to files_processed, files_failed or error_log; and when the
\* job completes total_files_found counts every file of the list, the
\* oversize ones included, none of which was downloaded or has a document.
C11_OversizeFileIsSkipped ==
    [][\A r \in JobIds :
         /\ (/\ run[r].pc = "file"
             /\ run[r].idx <= Len(run[r].all_files)
             /\ run'[r] # run[r]
             /\ Oversize(CurFile(run[r]))) =>
               /\ UNCHANGED <<documents, chunks, vectors>>
               /\ hist'.downloaded[r] = hist.downloaded[r]
               /\ run'[r] = [run[r] EXCEPT !.idx = @ + 1]
               /\ import_jobs'[run[r].job_id].files_processed = run[r].files_processed
               /\ import_jobs'[run[r].job_id].files_failed
                     = import_jobs[run[r].job_id].files_failed
               /\ import_jobs'[run[r].job_id].error_log
                     = import_jobs[run[r].job_id].error_log
         /\ (run[r].pc = "file" /\ run'[r].pc = "done") =>
               /\ import_jobs'[run[r].job_id].total_files_found = Len(run[r].all_files)
               /\ \A i \in 1..Len(run[r].all_files) :
                     Oversize(run[r].all_files[i]) =>
                        /\ run[r].all_files[i].id \notin hist.downloaded[r]
                        /\ DocsByKey(documents, run[r].connection_id,
                                     run[r].all_files[i].id) = {}]_vars

\* A job over two files completed: the first was oversize and skipped, the
\* second was indexed, and nothing was counted as failed.
C11_Witness ==
    \E j \in JobRows :
        /\ import_jobs[j].status = "completed"
        /\ Len(run[j].all_files) = 2
        /\ Oversize(run[j].all_files[1])
        /\ import_jobs[j].total_files_found = 2
        /\ import_jobs[j].files_processed = 1
        /\ import_jobs[j].files_failed = 0
        /\ import_jobs[j].error_log = <<>>

\* C12: the step that finds an extraction failed (an error, or blank text)
\* leaves the file's document failed with a non-empty error message and
\* adds exactly one to files_failed; and no step of a file's iteration up to
\* and including that one writes or deletes a chunk row or a vector.
C12_ExtractionFailureMarksDocument ==
    [][\A r \in JobIds :
         /\ (hist'.extract_failed[r] # hist.extract_failed[r]
                 /\ hist'.raised[r] = hist.raised[r]) =>
               /\ \E d \in documents' :
                     /\ d.id = run[r].document_id
                     /\ d.status = "failed"
                     /\ d.error_message # ""
               /\ \A d \in documents' : d.id # run[r].document_id => d \in documents
               /\ run'[r].files_failed = run[r].files_failed + 1
               /\ run'[r].files_processed = run[r].files_processed
         /\ (run[r].pc \in {"file", "upsert_document", "mark_processing", "extract"}
                 /\ run'[r] # run[r]) =>
               UNCHANGED <<chunks, vectors>>]_vars

\* The extraction of a re-imported file returned blank text: its document
\* is failed with the message of line 295, and the chunk rows and vectors
\* of the earlier import are still stored.
C12_Witness ==
    \E r \in JobIds : \E d \in documents :
        /\ hist.extract_failed[r] # {}
        /\ hist.raised[r] = {}
        /\ d.import_job_id = r
        /\ d.status = "failed"
        /\ d.error_message = "No text content"
        /\ ChunkRowsOf(chunks, d.id) # {}
        /\ VectorsOfDoc(vectors, d.id) # {}

\* C13: while a job is in status processing and its invocation is in the
\* file loop, the persisted total_chunks_created is the number of chunks of
\* the files indexed so far.
C13_ChunkCounterIsPersistedPerFile ==
    \A r \in JobIds :
        (/\ run[r].pc \notin {"idle", "start", "authenticate", "setup", "done"}
         /\ run[r].job_id \in JobRows
         /\ import_jobs[run[r].job_id].status = "processing") =>
            import_jobs[run[r].job_id].total_chunks_created = run[r].total_chunks

\* The folders reachable from f in at most n steps down, the depth of a
\* folder below the root, and the files a listing of f would return.
RECURSIVE Within(_, _, _)
Within(c, f, n) ==
    IF n = 0 THEN {f}
    ELSE {f} \cup UNION {Within(c, c.children[f][k], n - 1) : k \in DOMAIN c.children[f]}

Subtree(c, f) == Within(c, f, NFolders)

DepthOf(c, f) == CHOOSE n \in 0..NFolders : f \in Within(c, Root, n) /\
                    (n = 0 \/ f \notin Within(c, Root, n - 1))

FolderOfFile(c, i) == CHOOSE f \in Folders : \E k \in DOMAIN c.items[f] : c.items[f][k] = i

\* The files under the folders whose listing fails.
LostFiles(c) ==
    {i \in CrawlFiles : \E f \in c.failing : FolderOfFile(c, i) \in Subtree(c, f)}

\* C14: a crawl in which the listing of some folders fails ends without an
\* exception, and yields what the crawl of the same drive without failures
\* yields, in the same order, less the files of the failing folders and of
\* their descendants.
C14_ListingFailureCostsOnlyTheBranch ==
    (client.op = "crawl" /\ client.pc = "done") =>
        /\ ~client.raised
        /\ client.out = SelectSeq(CrawlFolder([client EXCEPT !.failing = {}], Root, 0).out,
                                  LAMBDA i : i \notin LostFiles(client))

\* The listing of the first sub-folder failed; its file is missing, and the
\* files of the root and of the next sub-folder were yielded.
C14_Witness ==
    /\ client.op = "crawl" /\ client.pc = "done"
    /\ client.failing = {2}
    /\ client.children[Root] = <<2, 3>>
    /\ client.items = <<<<>>, <<1>>, <<2>>>>
    /\ client.ext = <<".pdf", ".pdf">>
    /\ client.max_depth = 2
    /\ client.out = <<2>>

\* The folders the crawl lists with success: at depth at most max_depth, not
\* failing, and under no failing folder.
ListedFolders(c) ==
    {f \in Folders : /\ DepthOf(c, f) <= c.max_depth
                     /\ \A g \in c.failing : f \notin Subtree(c, g)}

\* C15: the crawl yields no file of a folder deeper than max_depth, and it
\* yields, once each, exactly the allow-listed files of the folders it
\* listed with success.
C15_CrawlStopsAtMaxDepth ==
    (client.op = "crawl" /\ client.pc = "done") =>
        /\ \A k \in DOMAIN client.out :
              DepthOf(client, FolderOfFile(client, client.out[k])) <= client.max_depth
        /\ {client.out[k] : k \in DOMAIN client.out}
              = {i \in CrawlFiles : /\ client.ext[i] \in SUPPORTED_EXTENSIONS
                                    /\ FolderOfFile(client, i) \in ListedFolders(client)}
        /\ \A k, m \in DOMAIN client.out : client.out[k] = client.out[m] => k = m

\* A chain of three folders crawled with max_depth 1: the file at depth 1
\* was yielded, the file at depth 2 was not.
C15_Witness ==
    /\ client.op = "crawl" /\ client.pc = "done"
    /\ client.children = <<<<2>>, <<3>>, <<>>>>
    /\ client.items = <<<<>>, <<1>>, <<2>>>>
    /\ client.ext = <<".pdf", ".pdf">>
    /\ client.failing = {}
    /\ client.max_depth = 1
    /\ client.out = <<1>>

\* C16: no job is failed by the exhausted retries of a folder listing or of
\* a download, whether the import is recursive or not.
C16_RetryExhaustionIsNotJobFatal ==
    \A j \in JobRows :
        import_jobs[j].status = "failed" =>
            \A k \in DOMAIN import_jobs[j].error_log :
                import_jobs[j].error_log[k].error
                    \notin {"list_folder_contents", "download_file"}

\* C18: no failed authentication attempt is followed by another attempt.
C18_SetupErrorIsNotRetried ==
    \A r \in JobIds : run[r].auth_retries = 0

IterationPositions ==
    {"upsert_document", "mark_processing", "extract", "delete_by_document",
     "delete_chunks_by_document", "upsert_vectors", "create_chunks", "mark_indexed"}

\* C19: in one invocation the iterations begin in the order of the list, one
\* per file: an iteration begins only when the one before has ended, it is
\* the iteration of the next file of the list, every step of the pipeline
\* works on the file whose iteration began last, and when the job is set to
\* completed every file of the list has had its iteration.
C19_FilesInCrawlOrderOneAtATime ==
    [][\A r \in JobIds :
         /\ hist'.attempted[r] # hist.attempted[r] =>
               /\ run[r].pc = "file"
               /\ Len(hist.attempted[r]) < Len(run[r].all_files)
               /\ hist'.attempted[r] =
                     Append(hist.attempted[r],
                            run[r].all_files[Len(hist.attempted[r]) + 1].id)
         /\ run[r].pc \in IterationPositions =>
               /\ hist.attempted[r] # <<>>
               /\ CurFile(run[r]).id = hist.attempted[r][Len(hist.attempted[r])]
         /\ (run[r].pc = "file" /\ run'[r].pc = "done") =>
               hist.attempted[r] = FileIds(run[r].all_files)]_vars

\* A job over two files completed after the first was indexed and the
\* second failed.
C19_Witness ==
    \E j \in JobRows :
        /\ import_jobs[j].status = "completed"
        /\ hist.attempted[j] = <<1, 2>>
        /\ import_jobs[j].files_processed = 1
        /\ hist.raised[j] = {2}

\* C20: a document written by a job whose request carried file_types is the
\* document of a file whose type is in that list.
C20_OnlyRequestedFileTypes ==
    \A d \in documents :
        (d.import_job_id \in JobRows
            /\ import_jobs[d.import_job_id].file_types # NoFileTypes) =>
                FileTypeOf(d.sharepoint_id) \in import_jobs[d.import_job_id].file_types

Failures(log) == Cardinality({k \in DOMAIN log : log[k] = "http_error"})

\* C17: list_folder_contents makes at most LIST_ATTEMPTS attempts, one per
\* retried failure so far plus the one under way.  It has returned exactly
\* when the last page of an attempt was read, which for a one-page listing
\* is the first request that succeeds (after f failures, f + 1 requests, at
\* most 5).  It has raised RetryError exactly when LIST_ATTEMPTS attempts
\* have failed.
C17_ListRetriesAtMostFiveTimes ==
    client.op = "list" =>
        /\ client.attempt_number <= LIST_ATTEMPTS
        /\ client.requests = Len(client.log)
        /\ Failures(client.log) <= LIST_ATTEMPTS
        /\ client.pc = "running" => client.attempt_number = Failures(client.log) + 1
        /\ client.pc = "returned" =>
              /\ Failures(client.log) < LIST_ATTEMPTS
              /\ \A k \in (Len(client.log) - client.pages + 1)..Len(client.log) :
                    client.log[k] = "ok"
        /\ (client.pc = "raised" /\ client.error = "RetryError") <=>
              Failures(client.log) = LIST_ATTEMPTS
        /\ client.pages = 1 =>
              /\ client.requests <= LIST_ATTEMPTS
              /\ client.pc = "returned" <=>
                    (client.log # <<>> /\ client.log[Len(client.log)] = "ok")
              /\ client.pc = "returned" => client.requests = Failures(client.log) + 1

\* Two 503 answers, then a page: the call returned after three requests.
C17_Witness ==
    /\ client.op = "list"
    /\ client.pages = 1
    /\ client.log = <<"http_error", "http_error", "ok">>
    /\ client.pc = "returned"
    /\ client.requests = 3

\* C21: a background run is scheduled only in a step that creates its job
\* row, in status pending and for a connection that exists; and a request
\* answered 404 names a connection that does not exist, creates no job row
\* and schedules no run.
C21_RunScheduledOnlyForCreatedJob ==
    [][/\ \A j \in JobIds :
            (run[j].pc = "idle" /\ run'[j].pc # "idle") =>
                /\ j \notin DOMAIN import_jobs
                /\ j \in DOMAIN import_jobs'
                /\ import_jobs'[j].status = "pending"
                /\ import_jobs'[j].connection_id \in connections
                /\ run'[j].pc = "start"
                /\ run'[j].job_id = j
       /\ \A j \in DOMAIN import_jobs' \ DOMAIN import_jobs :
            import_jobs'[j].connection_id \in connections /\ run'[j].pc = "start"
       /\ \A c \in hist'.not_found :
            /\ c \notin connections
            /\ c \notin hist.not_found => UNCHANGED <<import_jobs, run, next_ids>>]_vars

\* A run is scheduled for a pending job after requests for a connection
\* that never existed and for a deleted one were answered 404.
C21_Witness ==
    /\ (DelConns + 1) \in hist.not_found
    /\ hist.not_found \cap hist.deleted # {}
    /\ \E j \in JobRows : run[j].pc = "start" /\ import_jobs[j].status = "pending"

\* C22: a 'deleted' notification is processed for the document stored for
\* its item; no step of the processing changes another document, a chunk row
\* or a point of another document, or a job; and when the processing ends
\* with the document row deleted, no chunk row and no point of the document
\* is left.  The notification is processed while no other pipeline is under
\* way.
C22_DeletedNotificationRemovesDocument ==
    [][/\ (hook.pc = "idle" /\ hook'.pc = "deleted_vectors") =>
            \E d \in DocsByKey(documents, hook'.connection_id, hook'.item) :
                d.id = hook'.document_id
       /\ (hook.pc \in {"deleted_vectors", "deleted_chunks", "deleted_document"}
             /\ hook' # hook) =>
            LET id == hook.document_id IN
            /\ {d \in documents' : d.id # id} = {d \in documents : d.id # id}
            /\ {v \in vectors' : v.document_id # id} = {v \in vectors : v.document_id # id}
            /\ BagToSet(chunks') \subseteq BagToSet(chunks)
            /\ \A row \in BagToSet(chunks) :
                  row.document_id # id => (row \in BagToSet(chunks') /\ chunks'[row] = chunks[row])
            /\ UNCHANGED import_jobs
            /\ (hook.pc = "deleted_document" /\ documents' # documents) =>
                  /\ \A d \in documents' : d.id # id
                  /\ VectorsOfDoc(vectors', id) = {}
                  /\ ChunkRowsOf(chunks', id) = {}]_vars

\* The notification removed a document that an import had indexed, and the
\* document of another item is still stored with its chunk rows and points.
C22_Witness ==
    /\ hook.pc = "idle"
    /\ next_ids.notification = 2
    /\ \E p \in hist.indexed_by_run :
          /\ \A d \in documents : d.id # p[2]
          /\ VectorsOfDoc(vectors, p[2]) = {}
          /\ ChunkRowsOf(chunks, p[2]) = {}
    /\ \E d \in documents :
          /\ d.status = "indexed"
          /\ VectorsOfDoc(vectors, d.id) # {}
          /\ ChunkRowsOf(chunks, d.id) # {}

\* C23: when delete_connection(c) has committed and returns, the connection,
\* its import jobs, its documents and its points are gone and every chunk row
\* left belongs to a document of another connection; and no step of the
\* request changes a job, a document, a chunk row or a point of another
\* connection.  The request runs while no pipeline is under way.
C23_DeleteConnectionCascades ==
    [][\A c \in RequestedConnections :
         /\ (deleting = c /\ deleting' = NoConnection /\ c \in hist'.deleted) =>
               /\ c \notin connections'
               /\ \A j \in DOMAIN import_jobs' : import_jobs'[j].connection_id # c
               /\ \A d \in documents' : d.connection_id # c
               /\ \A v \in vectors' : v.connection_id # c
               /\ \A row \in BagToSet(chunks') :
                     \E d \in documents' : d.id = row.document_id
         /\ (deleting # deleting' /\ c \in {deleting, deleting'}) =>
               /\ connections' \ {c} = connections \ {c}
               /\ DOMAIN import_jobs' \subseteq DOMAIN import_jobs
               /\ \A j \in DOMAIN import_jobs :
                     import_jobs[j].connection_id # c
                        => (j \in DOMAIN import_jobs' /\ import_jobs'[j] = import_jobs[j])
               /\ {d \in documents' : d.connection_id # c} = {d \in documents : d.connection_id # c}
               /\ {v \in vectors' : v.connection_id # c} = {v \in vectors : v.connection_id # c}
               /\ BagToSet(chunks') \subseteq BagToSet(chunks)
               /\ \A row \in BagToSet(chunks) :
                     (\E d \in documents : d.id = row.document_id /\ d.connection_id # c)
                        => (row \in BagToSet(chunks') /\ chunks'[row] = chunks[row])]_vars

\* Connection 1, whose import had indexed a document, was deleted while
\* connection 2 keeps its job, its indexed document, chunk rows and points.
C23_Witness ==
    /\ hist.deleted = {1}
    /\ deleting = NoConnection
    /\ hist.job_conn[1] = 1
    /\ 1 \notin JobRows
    /\ \E p \in hist.indexed_by_run : p[1] = 1
    /\ 2 \in JobRows
    /\ \E d \in documents :
          /\ d.connection_id = 2
          /\ d.status = "indexed"
          /\ ChunkRowsOf(chunks, d.id) # {}
          /\ VectorsOfDoc(vectors, d.id) # {}

ChunkTextReturned == chunker.op = "chunk_text" /\ chunker.pc = "returned"

\* C24: the chunks returned carry the indexes 0, 1, ..., n-1 in list order.
C24_IndexesAreContiguous ==
    ChunkTextReturned =>
        \A i \in 1..Len(chunker.result) : chunker.result[i].index = i - 1

\* Two chunks are returned after an undersized chunk before them was dropped.
C24_Witness ==
    /\ ChunkTextReturned
    /\ Len(chunker.result) >= 2
    /\ Len(chunker.chunks) > Len(chunker.result)
    /\ CountTokens(chunker.chunks[1]) < chunker.self.min_chunk_size

\* C25: when more than one chunk is returned, no chunk returned has more
\* than chunk_size tokens.
C25_TokenCountWithinChunkSize ==
    (ChunkTextReturned /\ Len(chunker.result) > 1) =>
        \A i \in 1..Len(chunker.result) :
            chunker.result[i].token_count <= chunker.self.chunk_size

StartsWith(s, prefix) == Len(prefix) <= Len(s) /\ SubSeq(s, 1, Len(prefix)) = prefix

\* The text of the last n tokens of a text, or of all when it has fewer.
TrailingText(text, n) ==
    LET tokens == Encode(text)
        k == IF n < Len(tokens) THEN n ELSE Len(tokens) IN
    StrStrip(Decode(SubSeq(tokens, Len(tokens) - k + 1, Len(tokens))))

\* C26: for every chunk returned but the first and the last, the text of
\* its last chunk_overlap tokens (of all its tokens when it has fewer) is
\* the beginning of the chunk returned after it.
C26_AdjacentChunksOverlap ==
    ChunkTextReturned =>
        \A i \in 2..(Len(chunker.result) - 1) :
            StartsWith(chunker.result[i + 1].content,
                       TrailingText(chunker.result[i].content, chunker.self.chunk_overlap))

\* A text without its whitespace.
RECURSIVE Squeeze(_)
Squeeze(s) ==
    IF s = <<>> THEN <<>>
    ELSE IF IsSpace(Head(s)) THEN Squeeze(Tail(s))
    ELSE <<Head(s)>> \o Squeeze(Tail(s))

\* The chunks from the i-th on, each without some prefix (the first chunk
\* of the list whole), spell the rest of the text, whitespace aside.
RECURSIVE Reconstructs(_, _, _)
Reconstructs(result, i, rest) ==
    IF i > Len(result) THEN rest = <<>>
    ELSE LET content == Squeeze(result[i].content) IN
         \E p \in 0..(IF i = 1 THEN 0 ELSE Len(content)) :
             /\ StartsWith(rest, Drop(content, p))
             /\ Reconstructs(result, i + 1, Drop(rest, Len(content) - p))

\* C27: for a text that is not blank, the chunks returned, each without a
\* prefix, spell in index order the whole cleaned text, whitespace aside.
C27_ChunksCoverTheText ==
    (ChunkTextReturned /\ StrStrip(chunker.text) # <<>>) =>
        Reconstructs(chunker.result, 1, Squeeze(chunker.cleaned))

\* The chunks returned are chunks of the list, in its order, each as it is
\* in the list.
RECURSIVE IsSubsequence(_, _)
IsSubsequence(a, b) ==
    IF a = <<>> THEN TRUE
    ELSE IF b = <<>> THEN FALSE
    ELSE IF Head(a) = Head(b) THEN IsSubsequence(Tail(a), Tail(b))
    ELSE IsSubsequence(a, Tail(b))

\* C28: a chunk returned with fewer than min_chunk_size tokens is the only
\* chunk returned, and no chunk returned holds text of a dropped chunk:
\* each is an unchanged chunk of the list.
C28_UndersizedChunksAreDropped ==
    ChunkTextReturned =>
        /\ \A i \in 1..Len(chunker.result) :
              chunker.result[i].token_count < chunker.self.min_chunk_size
                  => Len(chunker.result) = 1
        /\ IsSubsequence([i \in 1..Len(chunker.result) |-> chunker.result[i].content],
                         chunker.chunks)

\* C29: when a page request fails and the listing is retried, the next
\* request is for the same page and the files and folders read so far are
\* kept.
C29_RetryKeepsPaginationState ==
    [][(/\ client.op = "list"
        /\ client.pc = "running"
        /\ client'.pc = "running"
        /\ Failures(client'.log) > Failures(client.log)) =>
            /\ client'.page = client.page
            /\ client'.files = client.files
            /\ client'.folders = client.folders]_vars

Occurrences(seq, id) == Cardinality({i \in DOMAIN seq : seq[i].id = id})

\* C30: when list_folder_contents has returned, the last request read the
\* last page, and the result holds the sub-folder of every page and the
\* file of every page whose extension is allow-listed exactly once, and no
\* other file.
C30_ListingIsCompleteAndExact ==
    (client.op = "list" /\ client.pc = "returned") =>
        /\ client.page = client.pages
        /\ client.log[Len(client.log)] = "ok"
        /\ \A k \in 1..client.pages :
              /\ Occurrences(client.folders, k) = 1
              /\ Occurrences(client.files, k) =
                    IF client.ext[k] \in SUPPORTED_EXTENSIONS THEN 1 ELSE 0
        /\ Len(client.folders) = client.pages
        /\ Len(client.files) <= client.pages

\* A listing of two pages returned after the request of its second page
\* had failed once; one of its files is not allow-listed.
C30_Witness ==
    /\ client.op = "list"
    /\ client.pc = "returned"
    /\ client.pages = 2
    /\ client.log = <<"ok", "http_error", "ok", "ok">>
    /\ client.ext[1] \notin SUPPORTED_EXTENSIONS
    /\ Len(client.files) = 1

\* C33: for every chunk returned, the slice of the cleaned text from
\* start_char to end_char is the content of the chunk.
C33_OffsetsSliceTheCleanedText ==
    ChunkTextReturned =>
        \A i \in 1..Len(chunker.result) :
            /\ chunker.result[i].end_char <= Len(chunker.cleaned)
            /\ SubSeq(chunker.cleaned, chunker.result[i].start_char + 1,
                      chunker.result[i].end_char) = chunker.result[i].content

\* C31: a recursive crawl ends, also on a folder graph with a cycle; no
\* folder is listed by a call deeper than max_depth, and no more than
\* max_depth + 2 calls of crawl() are under way at a time.
C31_CrawlTerminatesOnCycles ==
    /\ <>(client.pc = "done")
    /\ [](/\ \A k \in DOMAIN client.listed : client.listed[k].depth <= client.max_depth
          /\ Len(client.stack) <= client.max_depth + 2)

\* A crawl has ended on a graph in which the start folder lists itself:
\* it was listed at every depth up to max_depth and its file was yielded
\* as often.
C31_Witness ==
    /\ client.pc = "done"
    /\ client.max_depth = MaxDepthArg
    /\ \E k \in DOMAIN client.children[Root] : client.children[Root][k] = Root
    /\ \A d \in 0..MaxDepthArg :
          \E k \in DOMAIN client.listed :
              client.listed[k].fid = Root /\ client.listed[k].depth = d
    /\ Len(client.out) > MaxDepthArg

\* C32: once the vectors of a file are stored, the vector <document id>_i
\* exists once, carries the content of chunk i and the embedding computed
\* for that content, and there is no other vector of the document.
C32_VectorPairsChunkWithItsEmbedding ==
    embedder.pc = "stored" =>
        /\ \A k \in DOMAIN embedder.chunks :
              \E v \in vectors :
                  /\ v.id = <<embedder.document_id, k - 1>>
                  /\ v.content = embedder.chunks[k].content
                  /\ v.embedding = [of |-> embedder.chunks[k].content]
                  /\ \A w \in vectors : w.id = v.id => w = v
        /\ Cardinality(vectors) = Len(embedder.chunks)

\* The vectors of a file of more than one batch, whose chunks differ, are
\* stored after a response that came out of order and after a retry.
C32_Witness ==
    /\ embedder.pc = "stored"
    /\ Len(embedder.chunks) > BatchSize
    /\ \E k \in DOMAIN embedder.chunks : embedder.chunks[k].content # embedder.chunks[1].content
    /\ embedder.reordered
    /\ embedder.attempt_number > 1

\* C34: once a job is completed, every document it upserted is indexed or
\* failed.
C34_NoDocumentLeftInFlight ==
    \A j \in DOMAIN import_jobs :
        import_jobs[j].status = "completed" =>
            \A d \in documents :
                d.import_job_id = j => d.status \in {"indexed", "failed"}

\* C36: at the step that sets a job to completed, the files processed, the
\* files failed and the files that the completing run passed over as too
\* large or without chunks add up to the files found.
C36_CountersAddUpToFilesFound ==
    [][\A j \in DOMAIN import_jobs :
          (import_jobs[j].status # "completed" /\ import_jobs'[j].status = "completed") =>
              \E r \in Runners :
                  /\ run[r].job_id = j
                  /\ run[r].pc # "done"
                  /\ run'[r].pc = "done"
                  /\ import_jobs'[j].files_processed + import_jobs'[j].files_failed
                        + Len(hist'.skipped[r]) = import_jobs'[j].total_files_found]_vars

\* C35: no job is started by more than one run_import_job invocation.
C35_OneInvocationPerJob ==
    \A j \in JobIds : hist.runs[j] <= 1

\* C37: with one pipeline at a time, a document that is indexed has as many
\* chunk rows and as many vectors as its chunk_count says.
C37_IndexedDocumentIsWhole ==
    \A d \in documents :
        d.status = "indexed" =>
            /\ Cardinality({v \in vectors : v.document_id = d.id}) = d.chunk_count
            /\ BagCardinality([row \in {x \in BagToSet(chunks) : x.document_id = d.id}
                                 |-> CopiesIn(row, chunks)]) = d.chunk_count

\* C38: every chunk row and every vector stored names a document that
\* exists.
C38_NoOrphanChunkOrVector ==
    /\ \A v \in vectors : \E d \in documents : d.id = v.document_id
    /\ \A row \in BagToSet(chunks) : \E d \in documents : d.id = row.document_id

====
